---------------------------- MODULE Spec2Model ----------------------------
(***************************************************************************)
(* Query/response protocol engine of the thin client: request framing      *)
(* (Query, ConfigQuery), the perform / perform_async orchestration, the    *)
(* shared affinity version, the cursor and binary-type operations.         *)
(*                                                                         *)
(* Integers wider than the model checker's integers (the 64-bit            *)
(* correlation id, the products of the schema hash) are kept as            *)
(* little-endian sequences of bytes in two's complement.                   *)
(***************************************************************************)
EXTENDS Integers, Sequences, FiniteSets, TLC

(***************************************************************************)
(* Bounds of the model.                                                    *)
(***************************************************************************)
MaxVersion == 1
MaxFields == 2
MaxInitPos == 1
NumThreads == 2

(***************************************************************************)
(* Python values.                                                          *)
(***************************************************************************)
\* Python's None, and an optional value: <<>> is None, <<v>> is the value v.
None == <<>>
Some(v) == <<v>>
IsNone(o) == o = <<>>
Get(o) == o[1]

Byte == 0..255

RECURSIVE Zeros(_)
Zeros(n) == IF n = 0 THEN <<>> ELSE <<0>> \o Zeros(n - 1)

\* int.to_bytes(n, 'little', signed=True) / a ctypes little-endian field:
\* floor division and non-negative remainder are Python's >> 8 and & 0xff.
RECURSIVE ToBytes(_, _)
ToBytes(x, n) == IF n = 0 THEN <<>> ELSE <<x % 256>> \o ToBytes(x \div 256, n - 1)

\* int.from_bytes(b, 'little', signed=True) of a 4-byte field.
RECURSIVE FromBytesU(_)
FromBytesU(b) == IF b = <<>> THEN 0 ELSE b[1] + 256 * FromBytesU(Tail(b))

ParseInt32(b) ==
    LET mag == FromBytesU(SubSeq(b, 1, 3))
        top == b[4]
    IN  mag + 16777216 * (IF top >= 128 THEN top - 256 ELSE top)

\* One bit-wise operation on two non-negative integers of w bits.
RECURSIVE XorBits(_, _, _)
XorBits(a, b, w) ==
    IF w = 0 THEN 0
    ELSE (((a % 2) + (b % 2)) % 2) + 2 * XorBits(a \div 2, b \div 2, w - 1)

\* flags & mask for a one-bit mask (a power of two).
BitAnd(flags, mask) == ((flags \div mask) % 2) * mask

(***************************************************************************)
(* The seekable in-memory stream (BinaryStream / AioBinaryStream).         *)
(***************************************************************************)
SEEK_CUR == 1

NewStream(data) == [kind |-> "stream", buf |-> data, pos |-> 0]

Tell(stream) == stream.pos

Seek(stream, offset, whence) ==
    [stream EXCEPT !.pos = IF whence = SEEK_CUR THEN stream.pos + offset ELSE offset]

\* Writing past the end fills the gap with zero bytes, as io.BytesIO does.
Write(stream, data) ==
    LET old == stream.buf
        p == stream.pos
        padded == IF Len(old) < p THEN old \o Zeros(p - Len(old)) ELSE old
        e == p + Len(data)
        rest == IF Len(padded) > e THEN SubSeq(padded, e + 1, Len(padded)) ELSE <<>>
    IN  [stream EXCEPT !.buf = SubSeq(padded, 1, p) \o data \o rest, !.pos = e]

GetValue(stream) == stream.buf

(***************************************************************************)
(* The codecs of the declared fields (pyignite.datatypes): an opaque       *)
(* capability "encode a value of kind K to the stream".  A codec is a tag, *)
(* or a structure array with its own declared fields.  Strings are given   *)
(* as their UTF-8 bytes; a Python bool is the integer 0 or 1.              *)
(***************************************************************************)
IntT == [tag |-> "Int"]
LongT == [tag |-> "Long"]
ByteT == [tag |-> "Byte"]
ShortT == [tag |-> "Short"]
BoolT == [tag |-> "Bool"]
NullT == [tag |-> "Null"]
StringT == [tag |-> "String"]
StatementType == [tag |-> "StatementType"]
AnyDataArray == [tag |-> "AnyDataArray"]
Map == [tag |-> "Map"]
StructArray(following) == [tag |-> "StructArray", following |-> following]

RECURSIVE Encode(_, _)
RECURSIVE EncodeFields(_, _, _)
RECURSIVE EncodeRows(_, _, _)
Encode(c_type, value) ==
    CASE c_type.tag = "Int" -> ToBytes(value, 4)
      [] c_type.tag = "Long" -> ToBytes(value, 8)
      [] c_type.tag = "Short" -> ToBytes(value, 2)
      [] c_type.tag \in {"Byte", "Bool", "StatementType"} -> ToBytes(value, 1)
      [] c_type.tag = "Null" -> <<101>>
      [] c_type.tag = "String" ->
            IF IsNone(value) THEN <<101>>
            ELSE <<9>> \o ToBytes(Len(Get(value)), 4) \o Get(value)
      [] c_type.tag = "AnyDataArray" -> ToBytes(Len(value), 4) \o value
      [] c_type.tag = "StructArray" ->
            ToBytes(Len(value), 4) \o EncodeRows(c_type.following, value, 1)
      [] c_type.tag = "SchemaStruct" ->
            ToBytes(Len(value), 4) \o EncodeRows(c_type.following,
                [i \in 1..Len(value) |->
                    [value[i] EXCEPT !.schema_id = Get(value[i].schema_id)]], 1)
EncodeFields(following, values, i) ==
    IF i > Len(following) THEN <<>>
    ELSE Encode(following[i][2], values[following[i][1]])
            \o EncodeFields(following, values, i + 1)
EncodeRows(following, rows, i) ==
    IF i > Len(rows) THEN <<>>
    ELSE EncodeFields(following, rows[i], 1) \o EncodeRows(following, rows, i + 1)

\* ExpiryPolicy.write_policy: the payload of an expiry policy, its three
\* durations as 64-bit integers.
WritePolicy(stream, expiry_policy) ==
    Write(stream, ToBytes(expiry_policy.create, 8) \o ToBytes(expiry_policy.update, 8)
                    \o ToBytes(expiry_policy.access, 8))

\* A variant that writes the payload and leaves the flags at 0.
CacheInfoFromPythonNoFlag(stream, value) ==
    LET cache_id == IF ~IsNone(value) THEN Get(value).cache_id ELSE 0
        expiry_policy == IF ~IsNone(value) THEN Get(value).expiry_policy ELSE None
        written == Write(Write(stream, ToBytes(cache_id, 4)), ToBytes(0, 1))
    IN  [raised |-> "",
         stream |-> IF ~IsNone(expiry_policy)
                    THEN WritePolicy(written, Get(expiry_policy)) ELSE written]

\* A variant without the check of the protocol context.
CacheInfoFromPythonNoCheck(stream, value) ==
    LET cache_id == IF ~IsNone(value) THEN Get(value).cache_id ELSE 0
        expiry_policy == IF ~IsNone(value) THEN Get(value).expiry_policy ELSE None
        flags == IF ~IsNone(expiry_policy) THEN 4 ELSE 0
        written == Write(Write(stream, ToBytes(cache_id, 4)), ToBytes(flags, 1))
    IN  [raised |-> "",
         stream |-> IF ~IsNone(expiry_policy)
                    THEN WritePolicy(written, Get(expiry_policy)) ELSE written]

\* CacheInfo.from_python: the cache id, then the check of the protocol
\* context, the flags and the payload of the expiry policy.  An object of
\* either class is true, so `if value` and `if expiry_policy` ask for None.
\* [raised, stream]: the exception raised, if any, and the stream as left.
CacheInfoFromPython(stream, value) ==
    LET cache_id == IF ~IsNone(value) THEN Get(value).cache_id ELSE 0
        expiry_policy == IF ~IsNone(value) THEN Get(value).expiry_policy ELSE None
        flags == IF ~IsNone(expiry_policy) THEN 4 ELSE 0
        first == Write(stream, ToBytes(cache_id, 4))
        written == Write(first, ToBytes(flags, 1))
    IN  IF ~IsNone(expiry_policy)
            /\ ~Get(value).protocol_context.is_expiry_policy_supported
        THEN [raised |-> "NotSupportedByClusterError", stream |-> first]
        ELSE [raised |-> "",
              stream |-> IF ~IsNone(expiry_policy)
                         THEN WritePolicy(written, Get(expiry_policy)) ELSE written]

\* CacheInfo.from_python_async
CacheInfoFromPythonAsync(stream, value) == CacheInfoFromPython(stream, value)

\* The cache-context block as a declared field of a query.
CacheInfo == [tag |-> "CacheInfo"]

\* A value incompatible with its declared wire type: the 32-bit schema_id of
\* a schema entry cannot encode None; the cache-context block raises by itself.
CodecRejects(c_type, value) ==
    \/ c_type.tag = "SchemaStruct" /\ \E i \in 1..Len(value) : IsNone(value[i].schema_id)
    \/ c_type.tag = "CacheInfo" /\ CacheInfoFromPython(NewStream(<<>>), value).raised # ""

\* The exception a rejected value raises.
CodecError(c_type, value) ==
    IF c_type.tag = "CacheInfo" THEN CacheInfoFromPython(NewStream(<<>>), value).raised
    ELSE "TypeError"

\* c_type.from_python(stream, value)
CodecFromPython(c_type, stream, value) ==
    IF c_type.tag = "CacheInfo" THEN CacheInfoFromPython(stream, value).stream
    ELSE Write(stream, Encode(c_type, value))

\* c_type.from_python_async(stream, value): the cooperative equivalent
CodecFromPythonAsync(c_type, stream, value) ==
    IF c_type.tag = "CacheInfo" THEN CacheInfoFromPythonAsync(stream, value).stream
    ELSE Write(stream, Encode(c_type, value))

(***************************************************************************)
(* Query and ConfigQuery: the header type, built lazily and cached on the  *)
(* class, and the request builder.                                         *)
(***************************************************************************)
\* ctypes.sizeof of a field type
CSize(ctype) ==
    CASE ctype = "c_int" -> 4
      [] ctype = "c_short" -> 2
      [] ctype = "c_longlong" -> 8

RECURSIVE SizeOf(_)
SizeOf(c_type) == IF c_type = <<>> THEN 0 ELSE CSize(c_type[1][2]) + SizeOf(Tail(c_type))

QueryFields ==
    << <<"length", "c_int">>, <<"op_code", "c_short">>, <<"query_id", "c_longlong">> >>

ConfigQueryFields == QueryFields \o << <<"config_length", "c_int">> >>

\* The cached type of a class: None until build_c_type has run for it.
NoTypes == [Query |-> None, ConfigQuery |-> None]

\* A variant in which ConfigQuery has no _query_c_type attribute of its own:
\* until one is assigned to it, the lookup finds the attribute of Query.
BuildCTypeInherited(cls, types) ==
    LET found == IF cls = "ConfigQuery" /\ IsNone(types[cls]) THEN types["Query"]
                 ELSE types[cls]
    IN  IF IsNone(found)
        THEN LET built == IF cls = "ConfigQuery" THEN ConfigQueryFields ELSE QueryFields
             IN  <<built, [types EXCEPT ![cls] = Some(built)]>>
        ELSE <<Get(found), types>>

\* cls.build_c_type(): <<the type, the class attributes afterwards>>
BuildCType(cls, types) ==
    IF IsNone(types[cls])
    THEN LET built == IF cls = "ConfigQuery" THEN ConfigQueryFields ELSE QueryFields
         IN  <<built, [types EXCEPT ![cls] = Some(built)]>>
    ELSE <<Get(types[cls]), types>>

\* header_class(): every field zero.  The 64-bit query_id is held as its bytes.
NewHeader(c_type) ==
    [f \in {c_type[i][1] : i \in 1..Len(c_type)} |->
        IF f = "query_id" THEN Zeros(8) ELSE 0]

\* The bytes of a header structure (little-endian, packed).
RECURSIVE HeaderBytes(_, _)
HeaderBytes(header, c_type) ==
    IF c_type = <<>> THEN <<>>
    ELSE (IF c_type[1][2] = "c_longlong" THEN header[c_type[1][1]]
          ELSE ToBytes(header[c_type[1][1]], CSize(c_type[1][2])))
            \o HeaderBytes(header, Tail(c_type))

\* Query._build_header
QueryBuildHeader(self, stream, types, rnd) ==
    LET bt == BuildCType(self.cls, types)
        header_class == bt[1]
        header_len == SizeOf(header_class)
        header == [NewHeader(header_class) EXCEPT !.op_code = self.op_code]
    IN  [stream |-> Seek(stream, header_len, SEEK_CUR),
         c_type |-> header_class,
         types |-> bt[2],
         header |-> IF IsNone(self.query_id)
                    THEN [header EXCEPT !.query_id = rnd]
                    ELSE header]

\* header.config_length = header.length - ctypes.sizeof(type(header))
SetConfigLength(b) ==
    [b EXCEPT !.header.config_length = b.header.length - SizeOf(b.c_type)]

\* ConfigQuery._build_header
ConfigQueryBuildHeader(self, stream, types, rnd) ==
    SetConfigLength(QueryBuildHeader(self, stream, types, rnd))

BuildHeader(self, stream, types, rnd) ==
    IF self.cls = "ConfigQuery" THEN ConfigQueryBuildHeader(self, stream, types, rnd)
    ELSE QueryBuildHeader(self, stream, types, rnd)

\* A variant that measures the length from the start of the stream.
WriteHeaderFromZero(stream, header, c_type, init_pos) ==
    LET patched == [header EXCEPT !.length = Tell(stream) - CSize("c_int")]
    IN  Write(Seek(stream, init_pos, 0), HeaderBytes(patched, c_type))

\* Query.__write_header
WriteHeader(stream, header, c_type, init_pos) ==
    LET patched == [header EXCEPT !.length = Tell(stream) - init_pos - CSize("c_int")]
    IN  Write(Seek(stream, init_pos, 0), HeaderBytes(patched, c_type))

\* The loop over self.following; values[name] of an absent mapping raises.
RECURSIVE WriteFollowing(_, _, _, _)
WriteFollowing(following, stream, values, i) ==
    IF i > Len(following) THEN stream
    ELSE WriteFollowing(following,
                        CodecFromPython(following[i][2], stream, values[following[i][1]]),
                        values, i + 1)

RECURSIVE WriteFollowingAsync(_, _, _, _)
WriteFollowingAsync(following, stream, values, i) ==
    IF i > Len(following) THEN stream
    ELSE WriteFollowingAsync(following,
                             CodecFromPythonAsync(following[i][2], stream,
                                                  values[following[i][1]]),
                             values, i + 1)

\* An outcome of serialisation: the stream and class attributes, or a fault.
Raised(what, types) == [raised |-> what, stream |-> NewStream(<<>>), types |-> types]

\* The exception of the first field of the loop whose value is rejected.
RECURSIVE FollowingError(_, _, _)
FollowingError(following, values, i) ==
    IF CodecRejects(following[i][2], values[following[i][1]])
    THEN CodecError(following[i][2], values[following[i][1]])
    ELSE FollowingError(following, values, i + 1)

\* Query.from_python after the header b has been built: the loop over the
\* fields, then the header written back at init_pos.
FromPythonBody(self, values, init_pos, b) ==
    IF Len(self.following) > 0 /\ IsNone(values)
    THEN Raised("TypeError", b.types)
    ELSE IF \E i \in 1..Len(self.following) :
                CodecRejects(self.following[i][2], Get(values)[self.following[i][1]])
    THEN Raised(FollowingError(self.following, Get(values), 1), b.types)
    ELSE [raised |-> "",
          stream |-> WriteHeader(
              WriteFollowing(self.following, b.stream,
                             IF IsNone(values) THEN None ELSE Get(values), 1),
              b.header, b.c_type, init_pos),
          types |-> b.types]

\* Query.from_python: stream.tell() is the first use of the stream.
FromPython(self, stream, values, types, rnd) ==
    IF stream.kind # "stream" THEN Raised("AttributeError", types)
    ELSE FromPythonBody(self, values, Tell(stream),
                        BuildHeader(self, stream, types, rnd))

\* Query.from_python_async after the header b has been built.
FromPythonAsyncBody(self, values, init_pos, b) ==
    IF Len(self.following) > 0 /\ IsNone(values)
    THEN Raised("TypeError", b.types)
    ELSE IF \E i \in 1..Len(self.following) :
                CodecRejects(self.following[i][2], Get(values)[self.following[i][1]])
    THEN Raised(FollowingError(self.following, Get(values), 1), b.types)
    ELSE [raised |-> "",
          stream |-> WriteHeader(
              WriteFollowingAsync(self.following, b.stream,
                                  IF IsNone(values) THEN None ELSE Get(values), 1),
              b.header, b.c_type, init_pos),
          types |-> b.types]

\* Query.from_python_async
FromPythonAsync(self, stream, values, types, rnd) ==
    IF stream.kind # "stream" THEN Raised("AttributeError", types)
    ELSE FromPythonAsyncBody(self, values, Tell(stream),
                             BuildHeader(self, stream, types, rnd))

(***************************************************************************)
(* Responses.  A parsed response carries the status flags (absent on a     *)
(* protocol without them), the status code, the affinity version when the  *)
(* topology-changed flag is set, the error message when the status is not  *)
(* 0, and otherwise the declared fields in declaration order.  The bytes   *)
(* the server sent can also be malformed: in the header, so that parsing   *)
(* raises, or in a field's value, so that decoding it raises.              *)
(***************************************************************************)
RHF_TOPOLOGY_CHANGED == 2

Versions == (0..MaxVersion) \X (0..MaxVersion)

StatusCodes == {0, 1}

FlagValues == {None, Some(0), Some(1), Some(RHF_TOPOLOGY_CHANGED)}

\* getattr(response, 'flags', False) & RHF_TOPOLOGY_CHANGED
TopologyChanged(response) ==
    BitAnd(IF IsNone(response.flags) THEN 0 ELSE Get(response.flags),
           RHF_TOPOLOGY_CHANGED) # 0

\* "whole": every byte is well formed; "bad_value": the header is, a declared
\* field's value is not; "bad_header": the response cannot be parsed.
Bodies == {"whole", "bad_value", "bad_header"}

\* The responses conn.request can return: the affinity version is carried
\* only with the topology-changed flag (<<0, 0>> stands for its absence), the
\* continuation flag `more` and the values only with status 0, and nothing
\* can be read of a response whose header is malformed.
Responses ==
    { r \in [flags : FlagValues, status_code : StatusCodes, affinity : Versions,
             more : {0, 1}, body : Bodies] :
        /\ TopologyChanged(r) \/ r.affinity = <<0, 0>>
        /\ r.status_code # 0 => (r.more = 0 /\ r.body = "whole")
        /\ r.body = "bad_value" => r.more = 0
        /\ r.body = "bad_header" => (r.flags = None /\ r.more = 0) }

\* The error message string follows a non-zero status only.
ErrorMessage(response) == IF response.status_code = 0 THEN None ELSE Some("error")

\* A variant that compares the major versions only.
TupleGreaterMajorOnly(a, b) == a[1] > b[1]

\* A variant that takes a pair for greater when either component is.
TupleGreaterEither(a, b) == a[1] > b[1] \/ a[2] > b[2]

\* Python's comparison of two tuples: lexicographic.
TupleGreater(a, b) == a[1] > b[1] \/ (a[1] = b[1] /\ a[2] > b[2])

\* APIResult(response): status, no value yet, the error message if there is one.
APIResult(response) ==
    [raised |-> "", status |-> response.status_code, value |-> None,
     message |-> ErrorMessage(response)]

Fault(what) == [raised |-> what, status |-> 0, value |-> None, message |-> None]

\* A variant that leaves the update of the affinity version out.
PostProcessResponseNoUpdate(affinity, response) == <<affinity, APIResult(response)>>

\* Query.__post_process_response: <<the client's affinity version, the result>>
PostProcessResponse(affinity, response) ==
    LET new_affinity == response.affinity
        old_affinity == affinity
    IN  << IF TopologyChanged(response) /\ TupleGreater(new_affinity, old_affinity)
           THEN new_affinity ELSE affinity,
           APIResult(response) >>

\* c_type.to_python of one declared response field: a cursor id, the flag the
\* response carries, a page of key-value pairs, or rows of named field values
\* in column order.
DecodeField(c_type, response) ==
    CASE c_type.tag = "Long" -> 1
      [] c_type.tag = "Bool" -> response.more
      [] c_type.tag = "Map" -> << <<1, 10>>, <<2, 20>> >>
      [] c_type.tag = "StructArray" ->
            [r \in 1..2 |->
                [i \in 1..Len(c_type.following) |->
                    <<c_type.following[i][1], 10 * r + i>>]]

\* self.response_type(following=response_config, **kwargs)
ResponseStruct(response_type, response_config) ==
    [type |-> response_type, following |-> response_config]

\* The fields a response structure decodes: the declared ones; an SQLResponse
\* with a cursor decodes the cursor id, the rows and the continuation flag.
ResponseFields(response_struct) ==
    IF response_struct.type = "SQLResponse"
    THEN << <<"cursor", LongT>>,
            <<"data", StructArray(<< <<"field_0", AnyDataArray>>,
                                     <<"field_1", AnyDataArray>> >>)>>,
            <<"more", BoolT>> >>
    ELSE response_struct.following

\* response_struct.parse(stream) raises on a malformed header.
ParseRaises(response) == response.body = "bad_header"

\* response_struct.to_python(response) raises on a malformed value of a
\* declared field.
ToPythonRaises(response_struct, response) ==
    response.body = "bad_value" /\ Len(ResponseFields(response_struct)) > 0

\* response_struct.to_python(response): the declared fields as an ordered
\* mapping (a sequence of <<name, value>>); the empty return value, None,
\* when no field is declared.
ToPython(response_struct, response) ==
    LET following == ResponseFields(response_struct)
    IN  IF Len(following) = 0 THEN None
        ELSE Some([i \in 1..Len(following) |->
                    <<following[i][1], DecodeField(following[i][2], response)>>])

\* response_struct.to_python_async(response)
ToPythonAsync(response_struct, response) ==
    LET following == ResponseFields(response_struct)
    IN  IF Len(following) = 0 THEN None
        ELSE Some([i \in 1..Len(following) |->
                    <<following[i][1], DecodeField(following[i][2], response)>>])

\* Query.perform up to the exchange: the frame handed to conn.request.
PerformSend(self, query_params, types, rnd) ==
    FromPython(self, NewStream(<<>>), query_params, types, rnd)

\* Query.perform_async up to the exchange.
PerformSendAsync(self, query_params, types, rnd) ==
    FromPythonAsync(self, NewStream(<<>>), query_params, types, rnd)

\* Query.perform after __post_process_response has returned p: the value is
\* decoded for status 0, and an exception of to_python leaves perform.
Decoded(p, result, response_struct, response) ==
    <<p[1], IF result.status = 0
            THEN IF ToPythonRaises(response_struct, response) THEN Fault("ValueError")
                 ELSE [result EXCEPT !.value = ToPython(response_struct, response)]
            ELSE result>>

\* A variant that decodes the value whatever the status.
PerformRecvNoStatusCheck(affinity, response_struct, response) ==
    LET p == PostProcessResponse(affinity, response)
    IN  <<p[1], [p[2] EXCEPT !.value = ToPython(response_struct, response)]>>

\* A variant that leaves the client's affinity version alone.
PerformRecvKeepAffinity(affinity, response_struct, response) ==
    LET result == APIResult(response)
    IN  <<affinity, IF result.status = 0
                    THEN [result EXCEPT !.value = ToPythonAsync(response_struct, response)]
                    ELSE result>>

\* A variant that inspects the status first and updates the affinity version
\* for status 0 only.
PerformRecvStatusFirst(affinity, response_struct, response) ==
    IF ParseRaises(response) THEN <<affinity, Fault("ParseError")>>
    ELSE IF response.status_code # 0 THEN <<affinity, APIResult(response)>>
    ELSE Decoded(PostProcessResponse(affinity, response),
                 PostProcessResponse(affinity, response)[2], response_struct, response)

\* Query.perform from the response on: <<affinity version, result>>
PerformRecv(affinity, response_struct, response) ==
    IF ParseRaises(response) THEN <<affinity, Fault("ParseError")>>
    ELSE Decoded(PostProcessResponse(affinity, response),
                 PostProcessResponse(affinity, response)[2], response_struct, response)

\* Query.perform_async after __post_process_response has returned p.
DecodedAsync(p, result, response_struct, response) ==
    <<p[1], IF result.status = 0
            THEN IF ToPythonRaises(response_struct, response) THEN Fault("ValueError")
                 ELSE [result EXCEPT !.value = ToPythonAsync(response_struct, response)]
            ELSE result>>

\* Query.perform_async from the response on.
PerformRecvAsync(affinity, response_struct, response) ==
    IF ParseRaises(response) THEN <<affinity, Fault("ParseError")>>
    ELSE DecodedAsync(PostProcessResponse(affinity, response),
                      PostProcessResponse(affinity, response)[2], response_struct, response)

(***************************************************************************)
(* query_perform and the post-processing functions of the operations.      *)
(***************************************************************************)
\* dict(ordered mapping): the mapping from names to values.
Dict(od) ==
    [n \in {od[i][1] : i \in 1..Len(od)} |->
        od[CHOOSE i \in 1..Len(od) : od[i][1] = n /\ \A j \in (i + 1)..Len(od) : od[j][1] # n][2]]

\* list(row_dict.values())
Values(od) == [i \in 1..Len(od) |-> od[i][2]]

\* A variant that converts the value whatever the status.
QueryResultPostProcessAlways(result) ==
    IF IsNone(result.value) THEN Fault("TypeError")
    ELSE [result EXCEPT !.value = Some(Dict(Get(result.value)))]

\* __query_result_post_process
QueryResultPostProcess(result) ==
    IF result.status = 0
    THEN IF IsNone(result.value) THEN Fault("TypeError")
         ELSE [result EXCEPT !.value = Some(Dict(Get(result.value)))]
    ELSE result

\* A variant that always says there are more pages.
PostProcessSqlFieldsCursorMore(result) ==
    IF result.status # 0 THEN result
    ELSE IF IsNone(result.value) THEN Fault("TypeError")
    ELSE LET value == Dict(Get(result.value))
         IN  [result EXCEPT !.value =
                Some([data |-> [r \in 1..Len(value["data"]) |-> Values(value["data"][r])],
                      more |-> 1])]

\* A variant that puts each row in front of the rows already taken.
PostProcessSqlFieldsCursorReversed(result) ==
    IF result.status # 0 THEN result
    ELSE IF IsNone(result.value) THEN Fault("TypeError")
    ELSE LET value == Dict(Get(result.value))
         IN  [result EXCEPT !.value =
                Some([data |-> [r \in 1..Len(value["data"]) |->
                                    Values(value["data"][Len(value["data"]) + 1 - r])],
                      more |-> value["more"]])]

\* __post_process_sql_fields_cursor
PostProcessSqlFieldsCursor(result) ==
    IF result.status # 0 THEN result
    ELSE IF IsNone(result.value) THEN Fault("TypeError")
    ELSE LET value == Dict(Get(result.value))
         IN  [result EXCEPT !.value =
                Some([data |-> [r \in 1..Len(value["data"]) |-> Values(value["data"][r])],
                      more |-> value["more"]])]

\* A post-processing function of a caller of query_perform that wraps the
\* value of the result it is given and does not look at the status.
Wrap(result) == [result EXCEPT !.value = Some(result.value)]

\* post_process_fun(result); "" is no function
PostProcessFun(post_process_fun, result) ==
    CASE post_process_fun = "query_result" -> QueryResultPostProcess(result)
      [] post_process_fun = "sql_fields_cursor" -> PostProcessSqlFieldsCursor(result)
      [] post_process_fun = "wrap" -> Wrap(result)

\* A variant that applies the function for status 0 only.
InternalRecvStatusZero(post_process_fun, affinity, response_struct, response) ==
    LET p == PerformRecv(affinity, response_struct, response)
    IN  <<p[1], IF p[2].raised = "" /\ post_process_fun # "" /\ p[2].status = 0
                THEN PostProcessFun(post_process_fun, p[2])
                ELSE p[2]>>

\* query_perform._internal, from the response on; an exception of perform
\* leaves _internal before the function is applied.
InternalRecv(post_process_fun, affinity, response_struct, response) ==
    LET p == PerformRecv(affinity, response_struct, response)
    IN  <<p[1], IF p[2].raised = "" /\ post_process_fun # ""
                THEN PostProcessFun(post_process_fun, p[2])
                ELSE p[2]>>

\* query_perform._async_internal, from the response on
AsyncInternalRecv(post_process_fun, affinity, response_struct, response) ==
    LET p == PerformRecvAsync(affinity, response_struct, response)
    IN  <<p[1], IF p[2].raised = "" /\ post_process_fun # ""
                THEN PostProcessFun(post_process_fun, p[2])
                ELSE p[2]>>

\* query_perform: isinstance(conn, AioConnection) chooses the path
QueryPerformSend(self, conn, query_params, types, rnd) ==
    IF conn = "AioConnection" THEN PerformSendAsync(self, query_params, types, rnd)
    ELSE PerformSend(self, query_params, types, rnd)

QueryPerformRecv(conn, post_process_fun, affinity, response_struct, response) ==
    IF conn = "AioConnection"
    THEN AsyncInternalRecv(post_process_fun, affinity, response_struct, response)
    ELSE InternalRecv(post_process_fun, affinity, response_struct, response)

(***************************************************************************)
(* The schema id of put_binary_type.  Python integers are unbounded; the   *)
(* accumulator is held as 8 little-endian limbs in two's complement, wide  *)
(* enough for every intermediate product.                                  *)
(***************************************************************************)
\* 0x811c9dc5 and 0x01000193 as Python integers
FNV1_OFFSET_BASIS == <<197, 157, 28, 129, 0, 0, 0, 0>>
FNV1_PRIME == <<147, 1, 0, 1, 0, 0, 0, 0>>

PyInt(x) == ToBytes(x, 8)

RECURSIVE SumProd(_, _, _, _)
SumProd(a, b, i, j) ==
    IF j > i THEN 0 ELSE a[j] * b[i - j + 1] + SumProd(a, b, i, j + 1)

\* a * b on n limbs
RECURSIVE MulLimbs(_, _, _, _, _)
MulLimbs(a, b, n, i, carry) ==
    IF i > n THEN <<>>
    ELSE LET t == SumProd(a, b, i, 1) + carry
         IN  <<t % 256>> \o MulLimbs(a, b, n, i + 1, t \div 256)

\* int_overflow: the low 32 bits, read as a signed 32-bit integer
IntOverflow(v) ==
    SubSeq(v, 1, 4) \o (IF v[4] >= 128 THEN <<255, 255, 255, 255>> ELSE <<0, 0, 0, 0>>)

\* A variant that leaves out the multiplication.
SchemaRoundXorOnly(schema_id, byte) ==
    IntOverflow([schema_id EXCEPT ![1] = XorBits(schema_id[1], byte, 8)])

\* schema_id ^= byte; schema_id = int_overflow(schema_id * FNV1_PRIME)
SchemaRound(schema_id, byte) ==
    IntOverflow(MulLimbs([schema_id EXCEPT ![1] = XorBits(schema_id[1], byte, 8)],
                         FNV1_PRIME, 8, 1, 0))

\* A variant that takes the bytes of a field id most-significant first.
SchemaFieldMsbFirst(schema_id, field_id) ==
    SchemaRound(SchemaRound(SchemaRound(SchemaRound(schema_id,
        (field_id \div 16777216) % 256),
        (field_id \div 65536) % 256),
        (field_id \div 256) % 256),
        field_id % 256)

\* The four rounds of one field id, least-significant byte first.
SchemaField(schema_id, field_id) ==
    SchemaRound(SchemaRound(SchemaRound(SchemaRound(schema_id,
        field_id % 256),
        (field_id \div 256) % 256),
        (field_id \div 65536) % 256),
        (field_id \div 16777216) % 256)

\* entity_id(name): the externally fixed hash of the lower-cased name.
EntityId(name) ==
    CASE name = "a" -> 97
      [] name = "b" -> 98
      [] name = "name" -> 3373707
      [] name = "description" -> -1724546052
      [] name = "T" -> 116

\* The UTF-8 bytes of a name.
Utf8(name) ==
    CASE name = "a" -> <<97>>
      [] name = "b" -> <<98>>
      [] name = "name" -> <<110, 97, 109, 101>>
      [] name = "description" -> <<100, 101, 115, 99, 114, 105, 112, 116, 105, 111, 110>>
      [] name = "T" -> <<84>>

\* The loop of put_binary_type over schema.items(), in iteration order.
RECURSIVE SchemaLoop(_, _, _)
SchemaLoop(schema_id, schema, i) ==
    IF i > Len(schema) THEN schema_id
    ELSE SchemaLoop(SchemaField(schema_id, EntityId(schema[i])), schema, i + 1)

\* schema_id of a non-enum type
SchemaId(schema) ==
    SchemaLoop(IF Len(schema) > 0 THEN FNV1_OFFSET_BASIS ELSE PyInt(0), schema, 1)

(***************************************************************************)
(* The operations: the query structure, the parameters and the response    *)
(* configuration each one hands to query_perform or to Query.perform.      *)
(***************************************************************************)
OP_RESOURCE_CLOSE == 0
OP_CACHE_CREATE_WITH_CONFIGURATION == 1053
OP_QUERY_SCAN == 2000
OP_QUERY_SCAN_CURSOR_GET_PAGE == 2001
OP_QUERY_SQL == 2002
OP_QUERY_SQL_CURSOR_GET_PAGE == 2003
OP_QUERY_SQL_FIELDS == 2004
OP_QUERY_SQL_FIELDS_CURSOR_GET_PAGE == 2005
OP_GET_BINARY_TYPE == 3002
OP_PUT_BINARY_TYPE == 3003

\* Query(op_code, following, query_id=query_id)
Query(cls, op_code, following, query_id) ==
    [cls |-> cls, op_code |-> op_code, following |-> following, query_id |-> query_id]

Operation(op, conn, via, query, query_params, response_struct, post_process_fun, args) ==
    [op |-> op, conn |-> conn, via |-> via, query |-> query,
     query_params |-> query_params, response_struct |-> response_struct,
     post_process_fun |-> post_process_fun, args |-> args]

PageFields == << <<"data", Map>>, <<"more", BoolT>> >>
CursorPageFields == << <<"cursor", LongT>> >> \o PageFields

\* __scan
ScanOp(conn, cache, page_size, partitions, local, binary, query_id) ==
    Operation("scan", conn, "query_perform",
        Query("Query", OP_QUERY_SCAN,
              << <<"hash_code", IntT>>, <<"flag", ByteT>>, <<"filter", NullT>>,
                 <<"page_size", IntT>>, <<"partitions", IntT>>, <<"local", BoolT>> >>,
              query_id),
        Some([hash_code |-> cache, flag |-> IF binary THEN 1 ELSE 0, filter |-> None,
              page_size |-> page_size, partitions |-> partitions,
              local |-> IF local THEN 1 ELSE 0]),
        ResponseStruct("Response", CursorPageFields), "query_result", <<>>)

\* __scan_cursor_get_page
ScanCursorGetPageOp(conn, cursor, query_id) ==
    Operation("scan_cursor_get_page", conn, "query_perform",
        Query("Query", OP_QUERY_SCAN_CURSOR_GET_PAGE, << <<"cursor", LongT>> >>, query_id),
        Some([cursor |-> cursor]),
        ResponseStruct("Response", PageFields), "query_result", <<>>)

\* sql
SqlOp(conn, cache, table_name, query_str, page_size, query_id) ==
    Operation("sql", conn, "perform",
        Query("Query", OP_QUERY_SQL,
              << <<"hash_code", IntT>>, <<"flag", ByteT>>, <<"table_name", StringT>>,
                 <<"query_str", StringT>>, <<"query_args", AnyDataArray>>,
                 <<"distributed_joins", BoolT>>, <<"local", BoolT>>,
                 <<"replicated_only", BoolT>>, <<"page_size", IntT>>,
                 <<"timeout", LongT>> >>,
              query_id),
        Some([hash_code |-> cache, flag |-> 0, table_name |-> Some(table_name),
              query_str |-> Some(query_str), query_args |-> <<>>,
              distributed_joins |-> 0, local |-> 0, replicated_only |-> 0,
              page_size |-> page_size, timeout |-> 0]),
        ResponseStruct("Response", CursorPageFields), "", <<>>)

\* sql_cursor_get_page
SqlCursorGetPageOp(conn, cursor, query_id) ==
    Operation("sql_cursor_get_page", conn, "perform",
        Query("Query", OP_QUERY_SQL_CURSOR_GET_PAGE, << <<"cursor", LongT>> >>, query_id),
        Some([cursor |-> cursor]),
        ResponseStruct("Response", PageFields), "", <<>>)

\* __sql_fields
SqlFieldsOp(conn, cache, query_str, page_size, query_id) ==
    Operation("sql_fields", conn, "query_perform",
        Query("Query", OP_QUERY_SQL_FIELDS,
              << <<"hash_code", IntT>>, <<"flag", ByteT>>, <<"schema", StringT>>,
                 <<"page_size", IntT>>, <<"max_rows", IntT>>, <<"query_str", StringT>>,
                 <<"query_args", AnyDataArray>>, <<"statement_type", StatementType>>,
                 <<"distributed_joins", BoolT>>, <<"local", BoolT>>,
                 <<"replicated_only", BoolT>>, <<"enforce_join_order", BoolT>>,
                 <<"collocated", BoolT>>, <<"lazy", BoolT>>, <<"timeout", LongT>>,
                 <<"include_field_names", BoolT>> >>,
              query_id),
        Some([hash_code |-> cache, flag |-> 0, schema |-> None, page_size |-> page_size,
              max_rows |-> -1, query_str |-> Some(query_str), query_args |-> <<>>,
              statement_type |-> 0, distributed_joins |-> 0, local |-> 0,
              replicated_only |-> 0, enforce_join_order |-> 0, collocated |-> 0,
              lazy |-> 0, timeout |-> 0, include_field_names |-> 0]),
        ResponseStruct("SQLResponse", <<>>), "", <<>>)

\* f'field_{i}'
FieldLabel(i) == <<"field_0", "field_1", "field_2", "field_3">>[i + 1]

AnyDataObject == [tag |-> "AnyDataObject"]

\* __sql_fields_cursor_get_page
SqlFieldsCursorGetPageOp(conn, cursor, field_count, query_id) ==
    Operation("sql_fields_cursor_get_page", conn, "query_perform",
        Query("Query", OP_QUERY_SQL_FIELDS_CURSOR_GET_PAGE, << <<"cursor", LongT>> >>,
              query_id),
        Some([cursor |-> cursor]),
        ResponseStruct("Response",
            << <<"data", StructArray([i \in 1..field_count |->
                                        <<FieldLabel(i - 1), AnyDataObject>>])>>,
               <<"more", BoolT>> >>),
        "sql_fields_cursor", <<>>)

\* A variant that declares the response fields of a page.
ResourceCloseOpWithPage(conn, cursor, query_id) ==
    Operation("resource_close", conn, "query_perform",
        Query("Query", OP_RESOURCE_CLOSE, << <<"cursor", LongT>> >>, query_id),
        Some([cursor |-> cursor]),
        ResponseStruct("Response", PageFields), "", <<>>)

\* __resource_close
ResourceCloseOp(conn, cursor, query_id) ==
    Operation("resource_close", conn, "query_perform",
        Query("Query", OP_RESOURCE_CLOSE, << <<"cursor", LongT>> >>, query_id),
        Some([cursor |-> cursor]),
        ResponseStruct("Response", <<>>), "", <<>>)

\* A cache operation (cache_clear): the cache-context block is its only
\* field and no response field is declared.
CacheClearOp(conn, cache_info, query_id) ==
    Operation("cache_clear", conn, "query_perform",
        Query("Query", 1013, << <<"cache_info", CacheInfo>> >>, query_id),
        Some([cache_info |-> cache_info]),
        ResponseStruct("Response", <<>>), "", <<>>)

\* query_perform called with a query and a post-processing function of the
\* caller's own.
QueryPerformOp(conn, cursor, post_process_fun, query_id) ==
    Operation("query_perform", conn, "query_perform",
        Query("Query", OP_QUERY_SCAN_CURSOR_GET_PAGE, << <<"cursor", LongT>> >>, query_id),
        Some([cursor |-> cursor]),
        ResponseStruct("Response", PageFields), post_process_fun, <<>>)

\* The structures of the binary type registry (pyignite.datatypes.binary).
binary_fields_struct ==
    StructArray(<< <<"field_name", StringT>>, <<"type_id", IntT>>, <<"field_id", IntT>> >>)
enum_struct == StructArray(<< <<"literal", StringT>>, <<"type_id", IntT>> >>)
schema_struct ==
    [tag |-> "SchemaStruct",
     following |-> << <<"schema_id", IntT>>,
                      <<"schema_fields", StructArray(<< <<"schema_field_id", IntT>> >>)>> >>]

\* A variant that lists the fields from the last to the first.
SchemaFieldsReversed(schema) ==
    [i \in 1..Len(schema) |-> [schema_field_id |-> EntityId(schema[Len(schema) + 1 - i])]]

\* [{'schema_field_id': entity_id(x)} for x in schema]
SchemaFields(schema) ==
    [i \in 1..Len(schema) |-> [schema_field_id |-> EntityId(schema[i])]]

\* put_binary_type, up to the query: schema is the mapping's keys in iteration
\* order; the values are the field types (or the ordinals of an enum).
PutBinaryTypeOp(conn, type_name, is_enum, schema, query_id) ==
    LET type_id == EntityId(type_name)
        schema_id == IF is_enum THEN None ELSE Some(SchemaId(schema))
        binary_fields ==
            IF is_enum THEN <<>>
            ELSE [i \in 1..Len(schema) |->
                    [field_name |-> Some(Utf8(schema[i])), type_id |-> 3,
                     field_id |-> EntityId(schema[i])]]
        enums == [i \in 1..Len(schema) |-> [literal |-> Some(Utf8(schema[i])), type_id |-> i]]
        schema_entry ==
            [schema_id |-> IF IsNone(schema_id) THEN None
                           ELSE Some(ParseInt32(SubSeq(Get(schema_id), 1, 4))),
             schema_fields |-> SchemaFields(schema)]
        data == [type_name |-> Some(Utf8(type_name)), type_id |-> type_id,
                 affinity_key_field |-> None, binary_fields |-> binary_fields,
                 is_enum |-> IF is_enum THEN 1 ELSE 0, enums |-> enums,
                 schema |-> <<schema_entry>>]
        head == << <<"type_id", IntT>>, <<"type_name", StringT>>,
                   <<"affinity_key_field", StringT>>,
                   <<"binary_fields", binary_fields_struct>>, <<"is_enum", BoolT>> >>
    IN  Operation("put_binary_type", conn, "perform",
            Query("Query", OP_PUT_BINARY_TYPE,
                  IF is_enum
                  THEN head \o << <<"enums", enum_struct>>, <<"schema", schema_struct>> >>
                  ELSE head \o << <<"schema", schema_struct>> >>,
                  query_id),
            Some(data), ResponseStruct("Response", <<>>), "",
            [type_id |-> type_id, schema_id |-> schema_id, schema |-> schema,
             is_enum |-> is_enum])

\* put_binary_type, after the query
PutBinaryTypeFinish(result, args) ==
    IF result.status = 0
    THEN [result EXCEPT !.value =
            Some([type_id |-> args.type_id, schema_id |-> args.schema_id])]
    ELSE result

\* sql and sql_cursor_get_page, after the query
SqlFinish(result) ==
    IF result.status = 0
    THEN IF IsNone(result.value) THEN Fault("TypeError")
         ELSE [result EXCEPT !.value = Some(Dict(Get(result.value)))]
    ELSE result

\* get_binary_type: the query and the mapping it passes to from_python in
\* the place of the stream
GetBinaryTypeOp(conn, binary_type, query_id) ==
    Operation("get_binary_type", conn, "from_python",
        Query("Query", OP_GET_BINARY_TYPE, << <<"type_id", IntT>> >>, query_id),
        None, ResponseStruct("Response", << <<"type_exists", BoolT>> >>), "",
        [kind |-> "dict", buf |-> <<>>, pos |-> 0, type_id |-> binary_type])

\* A configuration-carrying request: ConfigQuery with the number of
\* configuration parameters and the parameters as its body.
ConfigQueryOp(conn, config, query_id) ==
    Operation("config_query", conn, "perform",
        Query("ConfigQuery", OP_CACHE_CREATE_WITH_CONFIGURATION,
              << <<"param_count", ShortT>> >>
                \o [i \in 1..Len(config) |-> <<"param", IntT>>],
              query_id),
        Some([param_count |-> Len(config), param |-> IF config = <<>> THEN 0 ELSE config[1]]),
        ResponseStruct("Response", <<>>), "", <<>>)

(***************************************************************************)
(* The inputs of the model.                                                *)
(***************************************************************************)
Conns == {"Connection", "AioConnection"}
QueryIds == {None, Some(5)}
\* randint(MIN_LONG, MAX_LONG): the two ends of the range
RandIds == {<<0, 0, 0, 0, 0, 0, 0, 128>>, <<255, 255, 255, 255, 255, 255, 255, 127>>}
Cursors == {1, 300}
FieldNames == {"a", "b", "name", "description"}

\* The key sequences of a schema mapping: distinct names, in iteration order.
Schemas ==
    UNION { { sq \in [1..n -> FieldNames] : \A i, j \in 1..n : i # j => sq[i] # sq[j] } :
            n \in 0..MaxFields }

Configs == {<<>>, <<7>>}

ScanOps == { ScanOp(c, 7, 2, -1, FALSE, FALSE, q) : c \in Conns, q \in QueryIds }
ScanCursorGetPageOps ==
    { ScanCursorGetPageOp(c, cur, q) : c \in Conns, cur \in Cursors, q \in QueryIds }
SqlOps == { SqlOp("Connection", 7, <<84>>, <<113>>, 2, q) : q \in QueryIds }
SqlCursorGetPageOps ==
    { SqlCursorGetPageOp("Connection", cur, q) : cur \in Cursors, q \in QueryIds }
SqlFieldsOps == { SqlFieldsOp(c, 7, <<113>>, 2, q) : c \in Conns, q \in QueryIds }
SqlFieldsCursorGetPageOps ==
    { SqlFieldsCursorGetPageOp(c, cur, n, q) :
        c \in Conns, cur \in Cursors, n \in 0..MaxFields, q \in QueryIds }
ResourceCloseOps ==
    { ResourceCloseOp(c, cur, q) : c \in Conns, cur \in Cursors, q \in QueryIds }
PutBinaryTypeOps ==
    { PutBinaryTypeOp("Connection", "T", e, sc, q) :
        e \in BOOLEAN, sc \in Schemas, q \in QueryIds }
GetBinaryTypeOps == { GetBinaryTypeOp("Connection", 116, q) : q \in QueryIds }
ConfigQueryOps == { ConfigQueryOp("Connection", cf, q) : cf \in Configs, q \in QueryIds }

\* The cache-context blocks: none, or a cache id with or without an expiry
\* policy, on a protocol context that supports expiry policies or does not.
CacheInfos ==
    {None} \cup
    { Some([cache_id |-> id, expiry_policy |-> e,
            protocol_context |-> [is_expiry_policy_supported |-> sup]]) :
        id \in {7, -2},
        e \in {None, Some([create |-> 1000, update |-> -1, access |-> -2])},
        sup \in BOOLEAN }
CacheClearOps ==
    { CacheClearOp(c, ci, q) : c \in Conns, ci \in CacheInfos, q \in QueryIds }

(***************************************************************************)
(* The state: the client's shared affinity version, the header types       *)
(* cached on the two classes, and one caller's operation in progress.      *)
(***************************************************************************)
VARIABLES
    affinity_version,   \* conn.client.affinity_version
    query_c_type,       \* Query._query_c_type and ConfigQuery._query_c_type
    pc,                 \* "idle", "sent" (in conn.request), "built", "typed", "done"
    call,               \* the operation in progress and its inputs, or None
    wire,               \* the stream's bytes after serialisation, or None
    response,           \* the parsed response, or None
    performed,          \* the result Query.perform returned, or None
    result,             \* the result the operation returns, or None
    max_seen,           \* history: the greatest version held or received so far
    threads,            \* the calls of concurrent threads or tasks sharing the client
    cursor,             \* the caller's cursor object of a paged query, or None
    reported,           \* history: `more` of the chain's last page response
    outstanding,        \* history: requests handed over and not yet answered
    exchanges           \* history: the conn.request calls of the operation in progress

vars ==
    <<affinity_version, query_c_type, pc, call, wire, response, performed, result,
      max_seen, threads, cursor, reported, outstanding, exchanges>>

\* The state of a paged query's call chain.
chain == <<cursor, reported>>

Threads == 1..NumThreads

\* The position of a version in the lexicographic order of the pairs.
Rank(v) == v[1] * (MaxVersion + 2) + v[2]

\* The history after a response: the later of the two in that order.
Later(v, resp) ==
    IF TopologyChanged(resp) /\ Rank(resp.affinity) > Rank(v) THEN resp.affinity ELSE v

IdleThread ==
    [pc |-> "idle", call |-> None, response |-> None, old_affinity |-> None,
     result |-> None]

Init ==
    /\ affinity_version \in Versions
    /\ query_c_type = NoTypes
    /\ pc = "idle"
    /\ call = None
    /\ wire = None
    /\ response = None
    /\ performed = None
    /\ result = None
    /\ max_seen = affinity_version
    /\ threads = [t \in Threads |-> IdleThread]
    /\ cursor = None
    /\ reported = None
    /\ outstanding = 0
    /\ exchanges = 0

\* The serialising half of an operation.
Send(c, types, rnd) ==
    CASE c.via = "query_perform" ->
            QueryPerformSend(c.query, c.conn, c.query_params, types, rnd)
      [] c.via = "perform" -> PerformSend(c.query, c.query_params, types, rnd)
      [] c.via = "from_python" -> FromPython(c.query, c.args, None, types, rnd)

\* The half of an operation after conn.request has returned:
\* <<affinity version, the result of perform, the result of the operation>>
Recv(c, affinity, resp) ==
    IF c.via = "query_perform"
    THEN LET p == IF c.conn = "AioConnection"
                  THEN PerformRecvAsync(affinity, c.response_struct, resp)
                  ELSE PerformRecv(affinity, c.response_struct, resp)
             q == QueryPerformRecv(c.conn, c.post_process_fun, affinity,
                                   c.response_struct, resp)
         IN  <<q[1], p[2], q[2]>>
    ELSE LET p == PerformRecv(affinity, c.response_struct, resp)
         IN  <<p[1], p[2],
               CASE p[2].raised # "" -> p[2]
                 [] p[2].raised = "" /\ c.op \in {"sql", "sql_cursor_get_page"} ->
                        SqlFinish(p[2])
                 [] p[2].raised = "" /\ c.op = "put_binary_type" ->
                        PutBinaryTypeFinish(p[2], c.args)
                 [] OTHER -> p[2]>>

\* randint is called only when no query_id was supplied.
Draws(c) == IF IsNone(c.query.query_id) THEN RandIds ELSE {Zeros(8)}

Started(c, rnd, init_pos) ==
    Some([op |-> c, rnd |-> rnd, init_pos |-> init_pos, held |-> affinity_version])

\* A variant that returns as soon as the request is handed over.
HandedNoWait(c, rnd, s) ==
    /\ call' = Started(c, rnd, 0)
    /\ query_c_type' = s.types
    /\ pc' = "done"
    /\ wire' = IF s.raised # "" THEN None ELSE Some(GetValue(s.stream))
    /\ result' = Some(Fault(s.raised))
    /\ outstanding' = IF s.raised # "" THEN outstanding ELSE outstanding + 1
    /\ exchanges' = IF s.raised # "" THEN 0 ELSE 1

\* A variant that hands the frame to conn.request a second time.
HandedTwice(c, rnd, s) ==
    /\ call' = Started(c, rnd, 0)
    /\ query_c_type' = s.types
    /\ IF s.raised # ""
       THEN /\ pc' = "done"
            /\ wire' = None
            /\ result' = Some(Fault(s.raised))
            /\ outstanding' = outstanding
            /\ exchanges' = 0
       ELSE /\ pc' = "sent"
            /\ wire' = Some(GetValue(s.stream))
            /\ result' = None
            /\ outstanding' = outstanding + 1
            /\ exchanges' = 2

\* The common course of a call: the request is serialised and handed to
\* conn.request, or serialisation raises and the operation ends.
Handed(c, rnd, s) ==
    /\ call' = Started(c, rnd, 0)
    /\ query_c_type' = s.types
    /\ IF s.raised # ""
       THEN /\ pc' = "done"
            /\ wire' = None
            /\ result' = Some(Fault(s.raised))
            /\ outstanding' = outstanding
            /\ exchanges' = 0
       ELSE /\ pc' = "sent"
            /\ wire' = Some(GetValue(s.stream))
            /\ result' = None
            /\ outstanding' = outstanding + 1
            /\ exchanges' = 1

Invoke(c) == \E rnd \in Draws(c) : Handed(c, rnd, Send(c, query_c_type, rnd))

scan ==
    /\ pc = "idle"
    /\ \E c \in ScanOps : Invoke(c)
    /\ UNCHANGED <<chain, affinity_version, response, performed, max_seen, threads>>

scan_cursor_get_page ==
    /\ pc = "idle"
    /\ \E c \in ScanCursorGetPageOps : Invoke(c)
    /\ UNCHANGED <<chain, affinity_version, response, performed, max_seen, threads>>

sql ==
    /\ pc = "idle"
    /\ \E c \in SqlOps : Invoke(c)
    /\ UNCHANGED <<chain, affinity_version, response, performed, max_seen, threads>>

sql_cursor_get_page ==
    /\ pc = "idle"
    /\ \E c \in SqlCursorGetPageOps : Invoke(c)
    /\ UNCHANGED <<chain, affinity_version, response, performed, max_seen, threads>>

sql_fields ==
    /\ pc = "idle"
    /\ \E c \in SqlFieldsOps : Invoke(c)
    /\ UNCHANGED <<chain, affinity_version, response, performed, max_seen, threads>>

sql_fields_cursor_get_page ==
    /\ pc = "idle"
    /\ \E c \in SqlFieldsCursorGetPageOps : Invoke(c)
    /\ UNCHANGED <<chain, affinity_version, response, performed, max_seen, threads>>

resource_close ==
    /\ pc = "idle"
    /\ \E c \in ResourceCloseOps : Invoke(c)
    /\ UNCHANGED <<chain, affinity_version, response, performed, max_seen, threads>>

put_binary_type ==
    /\ pc = "idle"
    /\ \E c \in PutBinaryTypeOps : Invoke(c)
    /\ UNCHANGED <<chain, affinity_version, response, performed, max_seen, threads>>

config_query ==
    /\ pc = "idle"
    /\ \E c \in ConfigQueryOps : Invoke(c)
    /\ UNCHANGED <<chain, affinity_version, response, performed, max_seen, threads>>

query_perform ==
    /\ pc = "idle"
    /\ \E c \in { QueryPerformOp(cn, 1, "wrap", q) : cn \in Conns, q \in QueryIds } :
        Invoke(c)
    /\ UNCHANGED <<chain, affinity_version, response, performed, max_seen, threads>>

cache_clear ==
    /\ pc = "idle"
    /\ \E c \in CacheClearOps : Invoke(c)
    /\ UNCHANGED <<chain, affinity_version, response, performed, max_seen, threads>>

Unpacked(c, rnd, s) ==
    /\ call' = Started(c, rnd, 0)
    /\ query_c_type' = s.types
    /\ result' = Some(Fault(IF s.raised # "" THEN s.raised ELSE "TypeError"))

\* get_binary_type: from_python is given the parameter mapping as its stream
\* and no values; had it returned, its None result could not be unpacked.
get_binary_type ==
    /\ pc = "idle"
    /\ \E c \in GetBinaryTypeOps : \E rnd \in Draws(c) :
        Unpacked(c, rnd, Send(c, query_c_type, rnd))
    /\ pc' = "done"
    /\ UNCHANGED <<chain, outstanding, exchanges, affinity_version, wire, response,
                   performed, max_seen, threads>>

\* The call record of cls.build_c_type() that returned bt[1].
Typed(cls, bt) ==
    /\ call' = Started(Operation("build_c_type", "Connection", "build_c_type",
                                 Query(cls, 0, <<>>, Some(0)), None,
                                 ResponseStruct("Response", <<>>), "", bt[1]),
                       Zeros(8), 0)
    /\ query_c_type' = bt[2]

\* Query.build_c_type() or ConfigQuery.build_c_type(), called on the class.
build_c_type ==
    /\ pc = "idle"
    /\ \E cls \in {"Query", "ConfigQuery"} : Typed(cls, BuildCType(cls, query_c_type))
    /\ pc' = "typed"
    /\ UNCHANGED <<chain, outstanding, exchanges, affinity_version, wire, response,
                   performed, result, max_seen, threads>>

\* The builder of the caller's kind of stream.
Serialise(c, stream, types, rnd) ==
    IF c.conn = "AioConnection"
    THEN FromPythonAsync(c.query, stream, c.query_params, types, rnd)
    ELSE FromPython(c.query, stream, c.query_params, types, rnd)

Built(c, rnd, init_pos, s) ==
    /\ s.raised = ""
    /\ call' = Started(c, rnd, init_pos)
    /\ query_c_type' = s.types
    /\ wire' = Some(GetValue(s.stream))

\* Query.from_python / from_python_async used on a caller's stream that already
\* holds init_pos bytes.
from_python ==
    /\ pc = "idle"
    /\ \E c \in ScanOps \cup ResourceCloseOps \cup PutBinaryTypeOps \cup ConfigQueryOps :
       \E rnd \in Draws(c) : \E init_pos \in 0..MaxInitPos :
        Built(c, rnd, init_pos,
              Serialise(c, Seek(NewStream(Zeros(init_pos)), init_pos, 0),
                        query_c_type, rnd))
    /\ pc' = "built"
    /\ UNCHANGED <<chain, outstanding, exchanges, affinity_version, response, performed,
                   result, max_seen, threads>>

Received(resp, r) ==
    /\ affinity_version' = r[1]
    /\ performed' = Some(r[2])
    /\ result' = Some(r[3])
    /\ response' = Some(resp)
    /\ max_seen' = Later(max_seen, resp)

\* conn.request returns the server's response; the operation runs to its end.
Reply ==
    /\ pc = "sent"
    /\ \E resp \in Responses :
        Received(resp, Recv(Get(call).op, affinity_version, resp))
    /\ pc' = "done"
    /\ outstanding' = outstanding - 1
    /\ UNCHANGED <<chain, exchanges, query_c_type, call, wire, threads>>

\* conn.request raises: the connection failed during the exchange.  Neither
\* perform nor query_perform catches the exception, and no statement after
\* conn.request is executed.
request_raises ==
    /\ pc = "sent"
    /\ pc' = "done"
    /\ performed' = Some(Fault("SocketError"))
    /\ result' = Some(Fault("SocketError"))
    /\ outstanding' = outstanding - 1
    /\ UNCHANGED <<chain, exchanges, affinity_version, query_c_type, call, wire,
                   response, max_seen, threads>>

\* The operation has returned to its caller.
Return ==
    /\ pc \in {"done", "built", "typed"}
    /\ pc' = "idle"
    /\ call' = None
    /\ wire' = None
    /\ response' = None
    /\ performed' = None
    /\ result' = None
    /\ exchanges' = 0
    /\ UNCHANGED <<chain, outstanding, affinity_version, query_c_type,
                   max_seen, threads>>

Next ==
    \/ scan
    \/ scan_cursor_get_page
    \/ sql
    \/ sql_cursor_get_page
    \/ sql_fields
    \/ sql_fields_cursor_get_page
    \/ resource_close
    \/ put_binary_type
    \/ get_binary_type
    \/ config_query
    \/ cache_clear
    \/ query_perform
    \/ from_python
    \/ build_c_type
    \/ Reply
    \/ request_raises
    \/ Return

\* One caller: the operations run one at a time.
Spec == Init /\ [][Next]_vars

(***************************************************************************)
(* Several threads, each performing queries over a connection of its own;  *)
(* the connections share the client.  A thread can be preempted between    *)
(* any two statements of __post_process_response, which takes no lock.     *)
(***************************************************************************)
ThreadOps ==
    {ResourceCloseOp("Connection", 1, None), ScanCursorGetPageOp("Connection", 1, None)}

SetThread(t, rec) == threads' = [threads EXCEPT ![t] = rec]

Performing(t, c, s) ==
    /\ s.raised = ""
    /\ query_c_type' = s.types
    /\ SetThread(t, [IdleThread EXCEPT !.pc = "sent", !.call = Some(c)])

\* Query.perform up to conn.request
thread_perform(t) ==
    /\ threads[t].pc = "idle"
    /\ \E c \in ThreadOps : \E rnd \in Draws(c) :
        Performing(t, c, PerformSend(c.query, c.query_params, query_c_type, rnd))
    /\ UNCHANGED <<chain, outstanding, exchanges, affinity_version, pc, call, wire,
                   response, performed, result, max_seen>>

\* perform's result for the response: the status check and the decoded value
\* do not read the client.
ThreadResult(c, resp) == PerformRecv(<<0, 0>>, c.response_struct, resp)[2]

\* conn.request returns and the response is parsed; without the
\* topology-changed flag __post_process_response goes straight to the result.
thread_response(t) ==
    /\ threads[t].pc = "sent"
    /\ \E resp \in Responses :
        /\ SetThread(t,
              IF TopologyChanged(resp)
              THEN [threads[t] EXCEPT !.pc = "read", !.response = Some(resp)]
              ELSE [threads[t] EXCEPT !.pc = "done",
                        !.result = Some(ThreadResult(Get(threads[t].call), resp))])
        /\ max_seen' = Later(max_seen, resp)
    /\ UNCHANGED <<chain, outstanding, exchanges, affinity_version, query_c_type, pc,
                   call, wire, response, performed, result>>

\* old_affinity = conn.client.affinity_version
thread_read(t) ==
    /\ threads[t].pc = "read"
    /\ SetThread(t, [threads[t] EXCEPT !.pc = "compare",
                                       !.old_affinity = Some(affinity_version)])
    /\ UNCHANGED <<chain, outstanding, exchanges, affinity_version, query_c_type, pc,
                   call, wire, response, performed, result, max_seen>>

\* if new_affinity > old_affinity: conn.client.affinity_version = new_affinity;
\* then the result is built.
thread_write(t) ==
    /\ threads[t].pc = "compare"
    /\ affinity_version' =
          IF TupleGreater(Get(threads[t].response).affinity, Get(threads[t].old_affinity))
          THEN Get(threads[t].response).affinity
          ELSE affinity_version
    /\ SetThread(t, [threads[t] EXCEPT
                        !.pc = "done", !.response = None, !.old_affinity = None,
                        !.result = Some(ThreadResult(Get(threads[t].call),
                                                     Get(threads[t].response)))])
    /\ UNCHANGED <<chain, outstanding, exchanges, query_c_type, pc, call, wire, response,
                   performed, result, max_seen>>

\* perform has returned to the thread's caller.
thread_return(t) ==
    /\ threads[t].pc = "done"
    /\ SetThread(t, IdleThread)
    /\ UNCHANGED <<chain, outstanding, exchanges, affinity_version, query_c_type, pc,
                   call, wire, response, performed, result, max_seen>>

NextThreads ==
    \E t \in Threads :
        \/ thread_perform(t)
        \/ thread_response(t)
        \/ thread_read(t)
        \/ thread_write(t)
        \/ thread_return(t)

\* Threads over connections that share the client, interleaved at statements.
SpecThreads == Init /\ [][NextThreads]_vars

(***************************************************************************)
(* One caller paging through a query with a cursor object                  *)
(* (pyignite.cursors): the constructor issues the Open request, a further  *)
(* page is fetched while the last page said there are more, and the cursor *)
(* can be closed, or abandoned to expire on the server.                    *)
(***************************************************************************)
OpenNames == {"scan", "sql", "sql_fields"}
ContinueNames ==
    {"scan_cursor_get_page", "sql_cursor_get_page", "sql_fields_cursor_get_page"}

\* The kinds of cursor and the connections they are used over.
CursorKinds ==
    {<<"scan", "Connection">>, <<"scan", "AioConnection">>, <<"sql", "Connection">>,
     <<"sql_fields", "Connection">>, <<"sql_fields", "AioConnection">>}

NewCursor(kind, conn) == [kind |-> kind, conn |-> conn, cursor_id |-> None, more |-> 0]

\* The Open request of a cursor.
OpenOp(kind, conn) ==
    CASE kind = "scan" -> ScanOp(conn, 7, 2, -1, FALSE, FALSE, None)
      [] kind = "sql" -> SqlOp(conn, 7, <<84>>, <<113>>, 2, None)
      [] kind = "sql_fields" -> SqlFieldsOp(conn, 7, <<113>>, 2, None)

\* The Continue request of a cursor, for the handle the server gave it.
ContinueOp(cur) ==
    CASE cur.kind = "scan" -> ScanCursorGetPageOp(cur.conn, Get(cur.cursor_id), None)
      [] cur.kind = "sql" -> SqlCursorGetPageOp(cur.conn, Get(cur.cursor_id), None)
      [] cur.kind = "sql_fields" ->
            SqlFieldsCursorGetPageOp(cur.conn, Get(cur.cursor_id), 2, None)

\* result.value[name]; the value of sql_fields is the ordered mapping as decoded.
Entry(c, value, name) == IF c.op = "sql_fields" THEN Dict(value)[name] ELSE value[name]

\* The cursor object after the operation c has returned r: an exception or a
\* non-zero status is raised to the user and leaves the cursor as it was (a
\* cursor whose Open request failed was never created); a page sets the
\* continuation flag, the first page the handle too; Close ends the cursor.
Taken(cur, c, r) ==
    IF r.raised # "" \/ r.status # 0
    THEN IF IsNone(cur.cursor_id) THEN None ELSE Some(cur)
    ELSE IF c.op = "resource_close" THEN None
    ELSE Some([cur EXCEPT
                !.cursor_id = IF c.op \in OpenNames
                              THEN Some(Entry(c, Get(r.value), "cursor")) ELSE @,
                !.more = Entry(c, Get(r.value), "more")])

\* A response that delivers a page of the chain with its continuation flag.
PageReported(c, resp) ==
    c.op \in OpenNames \cup ContinueNames /\ resp.status_code = 0 /\ resp.body = "whole"

\* The cursor's constructor: the Open request.
cursor_open ==
    /\ pc = "idle"
    /\ cursor = None
    /\ \E k \in CursorKinds :
        /\ Invoke(OpenOp(k[1], k[2]))
        /\ cursor' = Some(NewCursor(k[1], k[2]))
    /\ reported' = None
    /\ UNCHANGED <<affinity_version, response, performed, max_seen, threads>>

\* conn.request returns within an operation of the chain.
cursor_reply ==
    /\ pc = "sent"
    /\ \E resp \in Responses :
        /\ Received(resp, Recv(Get(call).op, affinity_version, resp))
        /\ reported' = IF PageReported(Get(call).op, resp) THEN Some(resp.more)
                       ELSE reported
    /\ pc' = "done"
    /\ outstanding' = outstanding - 1
    /\ UNCHANGED <<exchanges, query_c_type, call, wire, threads, cursor>>

Dropped(cur) ==
    /\ cursor' = cur
    /\ reported' = IF IsNone(cur) THEN None ELSE reported

\* The operation returns to the cursor, which takes the page from the result.
cursor_take ==
    /\ pc = "done"
    /\ ~IsNone(cursor)
    /\ Dropped(Taken(Get(cursor), Get(call).op, Get(result)))
    /\ pc' = "idle"
    /\ call' = None
    /\ wire' = None
    /\ response' = None
    /\ performed' = None
    /\ result' = None
    /\ exchanges' = 0
    /\ UNCHANGED <<outstanding, affinity_version, query_c_type, max_seen, threads>>

\* The next page is asked for only while the last one said there are more.
cursor_next ==
    /\ pc = "idle"
    /\ ~IsNone(cursor)
    /\ ~IsNone(Get(cursor).cursor_id)
    /\ Get(cursor).more # 0
    /\ Invoke(ContinueOp(Get(cursor)))
    /\ UNCHANGED <<chain, affinity_version, response, performed, max_seen, threads>>

\* Close, at any time once the cursor has its handle.
cursor_close ==
    /\ pc = "idle"
    /\ ~IsNone(cursor)
    /\ ~IsNone(Get(cursor).cursor_id)
    /\ Invoke(ResourceCloseOp(Get(cursor).conn, Get(Get(cursor).cursor_id), None))
    /\ UNCHANGED <<chain, affinity_version, response, performed, max_seen, threads>>

\* The caller stops using the cursor without closing it.
cursor_drop ==
    /\ pc = "idle"
    /\ ~IsNone(cursor)
    /\ Dropped(None)
    /\ UNCHANGED <<outstanding, exchanges, affinity_version, query_c_type, pc, call, wire,
                   response, performed, result, max_seen, threads>>

NextCursor ==
    \/ cursor_open
    \/ cursor_reply
    \/ cursor_take
    \/ cursor_next
    \/ cursor_close
    \/ cursor_drop

\* One caller and its cursor: open, continuations, close.
SpecCursor == Init /\ [][NextCursor]_vars

(***************************************************************************)
(* Several tasks of one event loop, each running perform_async through     *)
(* query_perform over a connection of its own; the connections share the   *)
(* client.  A task gives up control at an await only: a state shows each   *)
(* task at the await it is suspended in, and the code between two awaits   *)
(* runs in one step.                                                       *)
(***************************************************************************)
TaskOps == {ScanCursorGetPageOp("AioConnection", 1, None)}

\* The responses the tasks receive: well formed, with or without a new
\* affinity version.
TaskResponses ==
    { r \in Responses :
        r.body = "whole" /\ r.more = 0 /\ r.flags \in {None, Some(RHF_TOPOLOGY_CHANGED)} }

Awaiting(t, c, b) ==
    /\ query_c_type' = b.types
    /\ SetThread(t, [IdleThread EXCEPT !.pc = "from_python_async", !.call = Some(c)])

\* perform_async is called: from_python_async builds the header and awaits
\* c_type.from_python_async of the first declared field.
task_perform(t) ==
    /\ threads[t].pc = "idle"
    /\ \E c \in TaskOps : \E rnd \in Draws(c) :
        Awaiting(t, c, BuildHeader(c.query, NewStream(<<>>), query_c_type, rnd))
    /\ UNCHANGED <<chain, outstanding, exchanges, affinity_version, pc, call, wire,
                   response, performed, result, max_seen>>

\* The codec returns; the header is written and conn.request is awaited.
task_encoded(t) ==
    /\ threads[t].pc = "from_python_async"
    /\ \E rnd \in Draws(Get(threads[t].call)) :
        PerformSendAsync(Get(threads[t].call).query, Get(threads[t].call).query_params,
                         query_c_type, rnd).raised = ""
    /\ SetThread(t, [threads[t] EXCEPT !.pc = "request"])
    /\ UNCHANGED <<chain, outstanding, exchanges, affinity_version, query_c_type, pc, call,
                   wire, response, performed, result, max_seen>>

\* conn.request returns the response's bytes; response_struct.parse_async is
\* awaited.
task_reply(t) ==
    /\ threads[t].pc = "request"
    /\ SetThread(t, [threads[t] EXCEPT !.pc = "parse_async"])
    /\ UNCHANGED <<chain, outstanding, exchanges, affinity_version, query_c_type, pc, call,
                   wire, response, performed, result, max_seen>>

\* query_perform's result for a response.
TaskResult(c, resp) ==
    AsyncInternalRecv(c.post_process_fun, <<0, 0>>, c.response_struct, resp)[2]

\* A variant in which the held version compared with was read before an
\* await: any version the client has held so far.
task_parsed_stale(t) ==
    /\ threads[t].pc = "parse_async"
    /\ \E resp \in TaskResponses : \E old_affinity \in Versions :
        /\ Rank(old_affinity) <= Rank(affinity_version)
        /\ affinity_version' =
              IF TopologyChanged(resp) /\ TupleGreater(resp.affinity, old_affinity)
              THEN resp.affinity ELSE affinity_version
        /\ max_seen' = Later(max_seen, resp)
        /\ SetThread(t,
              IF resp.status_code = 0
              THEN [threads[t] EXCEPT !.pc = "to_python_async", !.response = Some(resp)]
              ELSE [threads[t] EXCEPT
                        !.pc = "done",
                        !.result = Some(TaskResult(Get(threads[t].call), resp))])
    /\ UNCHANGED <<chain, outstanding, exchanges, query_c_type, pc, call, wire, response,
                   performed, result>>

\* parse_async returns the response; __post_process_response runs, and for
\* status 0 response_struct.to_python_async is awaited.
task_parsed(t) ==
    /\ threads[t].pc = "parse_async"
    /\ \E resp \in TaskResponses :
        /\ affinity_version' = PostProcessResponse(affinity_version, resp)[1]
        /\ max_seen' = Later(max_seen, resp)
        /\ SetThread(t,
              IF resp.status_code = 0
              THEN [threads[t] EXCEPT !.pc = "to_python_async", !.response = Some(resp)]
              ELSE [threads[t] EXCEPT
                        !.pc = "done",
                        !.result = Some(TaskResult(Get(threads[t].call), resp))])
    /\ UNCHANGED <<chain, outstanding, exchanges, query_c_type, pc, call, wire, response,
                   performed, result>>

\* to_python_async returns the value; perform_async returns and
\* _async_internal applies the post-processing function.
task_decoded(t) ==
    /\ threads[t].pc = "to_python_async"
    /\ SetThread(t, [threads[t] EXCEPT
                        !.pc = "done", !.response = None,
                        !.result = Some(TaskResult(Get(threads[t].call),
                                                   Get(threads[t].response)))])
    /\ UNCHANGED <<chain, outstanding, exchanges, affinity_version, query_c_type, pc, call,
                   wire, response, performed, result, max_seen>>

NextTasks ==
    \E t \in Threads :
        \/ task_perform(t)
        \/ task_encoded(t)
        \/ task_reply(t)
        \/ task_parsed(t)
        \/ task_decoded(t)
        \/ thread_return(t)

\* Tasks over connections that share the client, interleaved at the awaits.
SpecTasks == Init /\ [][NextTasks]_vars

(***************************************************************************)
(* Properties.                                                             *)
(***************************************************************************)
\* The operation in progress and its inputs.
Op == Get(call).op

\* The frame: the stream's bytes from the position serialisation started at.
Frame == SubSeq(Get(wire), Get(call).init_pos + 1, Len(Get(wire)))

ParsedLength == ParseInt32(SubSeq(Frame, 1, 4))

\* C1: every serialised request, by from_python or from_python_async, of a
\* Query or a ConfigQuery, from any starting position of the stream, and as it
\* is handed to conn.request, carries in its first four bytes the number of
\* bytes of the frame that follow them: parsed_length(frame) = len(frame) - 4.
C1_LengthCoversFrame == ~IsNone(wire) => ParsedLength = Len(Frame) - 4

\* A ConfigQuery with a parameter, serialised into a stream that already
\* holds bytes.
C1_Witness ==
    /\ pc = "built"
    /\ Get(call).init_pos > 0
    /\ Op.query.cls = "ConfigQuery"
    /\ Len(Op.query.following) > 1
    /\ Len(Frame) = 24

\* C2: the 64-bit correlation id in the request header is the caller's
\* query_id when one is supplied, and the randomly drawn value of the signed
\* 64-bit range only when query_id is None.
C2_CorrelationId ==
    ~IsNone(wire) =>
        SubSeq(Frame, 7, 14) =
            (IF IsNone(Op.query.query_id) THEN Get(call).rnd
             ELSE PyInt(Get(Op.query.query_id)))

\* C3: in every frame of a ConfigQuery, config_length is the number of bytes
\* after the 18-byte header, and the outer length is config_length + 14.
C3_ConfigLength ==
    (~IsNone(wire) /\ Op.query.cls = "ConfigQuery") =>
        /\ ParseInt32(SubSeq(Frame, 15, 18)) = Len(Frame) - 18
        /\ ParsedLength = ParseInt32(SubSeq(Frame, 15, 18)) + 14

\* C4: with the responses processed one at a time, the held affinity version
\* is always the lexicographic maximum of the version held at the start and
\* the versions of the topology-changed responses received, in whatever order
\* they came, and it never decreases from one state to the next.
C4_HeldIsMaximum ==
    /\ [](affinity_version = max_seen)
    /\ [][Rank(affinity_version') >= Rank(affinity_version)]_vars

\* A response with the major version held and a greater minor version has
\* replaced the held version.
C4_Witness ==
    /\ pc = "done"
    /\ ~IsNone(response)
    /\ TopologyChanged(Get(response))
    /\ Get(response).affinity[1] = Get(call).held[1]
    /\ Get(response).affinity[2] > Get(call).held[2]
    /\ affinity_version = Get(response).affinity

\* C5: with the queries of several threads completing concurrently, the
\* shared affinity version never regresses, and once every thread has
\* finished it is the greatest version held or received.
C5_NeverRegresses ==
    /\ [][Rank(affinity_version') >= Rank(affinity_version)]_vars
    /\ []((\A t \in Threads : threads[t].pc \in {"idle", "done"})
            => affinity_version = max_seen)

\* C6, as stated: the result of perform or perform_async has a value if and
\* only if its status is 0, and a non-zero status comes with an error message.
C6_ValueIffStatusZero ==
    (~IsNone(performed) /\ Get(performed).raised = "") =>
        /\ ~IsNone(Get(performed).value) <=> Get(performed).status = 0
        /\ Get(performed).status # 0 => ~IsNone(Get(performed).message)

\* C6, amended: a non-zero status comes with no value and with an error
\* message; with status 0 the value is what the response structure decodes,
\* present exactly when the response declares at least one field.
C6_ValueOfStatus ==
    (~IsNone(performed) /\ Get(performed).raised = "") =>
        /\ Get(performed).status # 0 =>
              IsNone(Get(performed).value) /\ ~IsNone(Get(performed).message)
        /\ Get(performed).status = 0 =>
              (~IsNone(Get(performed).value)
                  <=> Len(ResponseFields(Op.response_struct)) > 0)

\* perform has returned status 0 and no value: the cursor was closed.
C6_Witness ==
    /\ ~IsNone(performed)
    /\ Op.op = "resource_close"
    /\ Get(performed).status = 0
    /\ IsNone(Get(performed).value)

ServerAnswered ==
    {"scan", "scan_cursor_get_page", "sql", "sql_cursor_get_page", "sql_fields",
     "sql_fields_cursor_get_page", "resource_close", "put_binary_type"}

\* C7: an operation the server answers with a non-zero status returns a
\* result with exactly that status and does not raise; its post-processing
\* leaves the result of perform as it is, with no value.
C7_NonZeroStatusReturned ==
    (pc = "done" /\ ~IsNone(response) /\ Op.op \in ServerAnswered
        /\ Get(response).status_code # 0) =>
            /\ Get(result).raised = ""
            /\ Get(result).status = Get(response).status_code
            /\ IsNone(Get(result).value)
            /\ result = performed

\* scan over the cooperative branch of query_perform, answered with status 1.
C7_Witness ==
    /\ pc = "done"
    /\ ~IsNone(response)
    /\ Op.op = "scan"
    /\ Op.conn = "AioConnection"
    /\ Get(response).status_code = 1
    /\ Get(result).status = 1

\* C8: get_binary_type serialises its request, exchanges it with the
\* connection and returns a result of the uniform shape: no value with a
\* non-zero status, a value with type_exists with status 0.
C8_GetBinaryTypeReturns ==
    (pc = "done" /\ Op.op = "get_binary_type") =>
        /\ Get(result).raised = ""
        /\ ~IsNone(response)
        /\ Get(result).status # 0 => IsNone(Get(result).value)
        /\ Get(result).status = 0 => ~IsNone(Get(result).value)

\* C9: Query.perform and Query.perform_async, and the two branches of
\* query_perform, agree: for the same query, parameters, random draw,
\* response and held affinity version they hand the same frame to
\* conn.request and return the same result and the same affinity version,
\* and these are the frame, the result and the version of the operation.
C9_PathsAgree ==
    /\ (pc = "sent" /\ ~IsNone(wire)) =>
          /\ PerformSendAsync(Op.query, Op.query_params, NoTypes, Get(call).rnd)
                = PerformSend(Op.query, Op.query_params, NoTypes, Get(call).rnd)
          /\ QueryPerformSend(Op.query, "AioConnection", Op.query_params, NoTypes,
                              Get(call).rnd)
                = QueryPerformSend(Op.query, "Connection", Op.query_params, NoTypes,
                                   Get(call).rnd)
          /\ wire = Some(GetValue(PerformSendAsync(Op.query, Op.query_params, NoTypes,
                                                   Get(call).rnd).stream))
    /\ (pc = "done" /\ ~IsNone(response)) =>
          /\ PerformRecvAsync(Get(call).held, Op.response_struct, Get(response))
                = PerformRecv(Get(call).held, Op.response_struct, Get(response))
          /\ QueryPerformRecv("AioConnection", Op.post_process_fun, Get(call).held,
                              Op.response_struct, Get(response))
                = QueryPerformRecv("Connection", Op.post_process_fun, Get(call).held,
                                   Op.response_struct, Get(response))
          /\ <<affinity_version, Get(performed)>>
                = PerformRecvAsync(Get(call).held, Op.response_struct, Get(response))

\* The cooperative branch has decoded a page and raised the affinity version.
C9_Witness ==
    /\ pc = "done"
    /\ ~IsNone(response)
    /\ Op.conn = "AioConnection"
    /\ Op.op = "sql_fields_cursor_get_page"
    /\ Get(response).status_code = 0
    /\ affinity_version # Get(call).held
    /\ ~IsNone(Get(result).value)

\* The reference FNV-1 fold on an unsigned 32-bit accumulator of four limbs:
\* for each byte, XOR and then multiply by the prime modulo 2^32.
FnvOffsetBasis32 == <<197, 157, 28, 129>>
FnvPrime32 == <<147, 1, 0, 1>>

RECURSIVE FnvBytes(_, _)
FnvBytes(acc, bytes) ==
    IF bytes = <<>> THEN acc
    ELSE FnvBytes(MulLimbs([acc EXCEPT ![1] = XorBits(acc[1], bytes[1], 8)],
                           FnvPrime32, 4, 1, 0),
                  Tail(bytes))

RECURSIVE FnvFold(_, _)
FnvFold(acc, ids) ==
    IF ids = <<>> THEN acc
    ELSE FnvFold(FnvBytes(acc, ToBytes(ids[1], 4)), Tail(ids))

\* The result read as a signed 32-bit integer; 0 for no fields.
ReferenceSchemaId(schema) ==
    IF schema = <<>> THEN 0
    ELSE ParseInt32(FnvFold(FnvOffsetBasis32,
                            [i \in 1..Len(schema) |-> EntityId(schema[i])]))

\* C10: the schema id put_binary_type computes for a non-enum type is the
\* reference FNV-1 fold over the field ids in iteration order, bytes
\* least-significant first, XOR then multiply, wrapping as a signed 32-bit
\* integer; it is 0 for no fields and always a signed 32-bit value; it is the
\* schema id sent and, with status 0, the one returned.  The id computed is
\* compared with the reference when the request goes out, and the id
\* returned with the id computed.
C10_SchemaIdIsFnv1 ==
    (~IsNone(call) /\ Op.op = "put_binary_type" /\ ~Op.args.is_enum) =>
        /\ pc = "sent" =>
              /\ Op.args.schema_id = Some(PyInt(ReferenceSchemaId(Op.args.schema)))
              /\ Get(Op.query_params).schema[1].schema_id
                    = Some(ReferenceSchemaId(Op.args.schema))
              /\ (Op.args.schema = <<>>) => Op.args.schema_id = Some(PyInt(0))
        /\ (pc = "done" /\ Get(result).raised = "" /\ Get(result).status = 0) =>
              Get(Get(result).value).schema_id = Op.args.schema_id

\* A type of two fields, one with a negative field id, has been registered.
C10_Witness ==
    /\ pc = "done"
    /\ Op.op = "put_binary_type"
    /\ Op.args.schema = <<"description", "name">>
    /\ ~Op.args.is_enum
    /\ Get(result).raised = ""
    /\ Get(result).status = 0
    /\ Get(Get(result).value).schema_id = Some(PyInt(24484936))

\* C11: when put_binary_type registers an enum, the schema id placed in the
\* schema entry of the request, and the one reported with status 0, is 0
\* whatever the literals, and the literals with their ordinals are carried in
\* the enums list.
C11_EnumSchemaIdZero ==
    (~IsNone(call) /\ Op.op = "put_binary_type" /\ Op.args.is_enum) =>
        /\ Get(Op.query_params).schema[1].schema_id = Some(0)
        /\ Op.args.schema_id = Some(PyInt(0))
        /\ Len(Get(Op.query_params).enums) = Len(Op.args.schema)
        /\ (pc = "done" /\ Get(result).raised = "" /\ Get(result).status = 0) =>
              Get(Get(result).value).schema_id = Some(PyInt(0))

\* C12: the schema id is a function of the ordered field sequence, and it is
\* sensitive to the order: computed again over the same sequence it is the
\* id put_binary_type holds, and a type of two fields registered in the
\* order [a, b] gets another id than the same fields in the order [b, a].
C12_OrderSensitive ==
    (pc = "sent" /\ Op.op = "put_binary_type" /\ ~Op.args.is_enum) =>
        /\ Op.args.schema_id = Some(SchemaId(Op.args.schema))
        /\ Len(Op.args.schema) = 2 =>
              Op.args.schema_id
                  # Some(SchemaId(<<Op.args.schema[2], Op.args.schema[1]>>))

\* The fields a and b are being registered in the order [b, a].
C12_Witness ==
    /\ pc = "sent"
    /\ Op.op = "put_binary_type"
    /\ ~Op.args.is_enum
    /\ Op.args.schema = <<"b", "a">>
    /\ Op.args.schema_id = Some(PyInt(1793307350))
    /\ SchemaId(<<"a", "b">>) = PyInt(571803110)

\* C13: once a page response of a cursor's chain has reported more = false,
\* the caller issues no further Continue request for the handle: none is in
\* flight while the last page delivered says there are no more.
C13_NoContinueAfterLast ==
    (pc = "sent" /\ Op.op \in ContinueNames) =>
        /\ reported # Some(0)
        /\ Get(Op.query_params).cursor = Get(Get(cursor).cursor_id)

\* The last page has been delivered and the caller's next request is Close.
C13_Witness ==
    /\ pc = "sent" /\ Op.op = "resource_close"
    /\ reported = Some(0)
    /\ Get(cursor).more = 0
    /\ Get(cursor).kind = "sql_fields"

\* C14: within one logical query the requests go out in strict sequence: at
\* most one request of the chain is in flight, it is in flight exactly while
\* its operation is inside conn.request, and an operation that handed a
\* request over has returned only with the response received and, for status
\* 0, its declared fields decoded.
C14_StrictSequence ==
    /\ outstanding \in {0, 1}
    /\ (outstanding = 1) <=> (pc = "sent")
    /\ (pc = "done" /\ ~IsNone(wire)) =>
          /\ ~IsNone(response)
          /\ (Get(result).raised = "" /\ Get(result).status = 0
                /\ Len(ResponseFields(Op.response_struct)) > 0) =>
                    ~IsNone(Get(result).value)

\* A Continue request in flight, alone, after the Open request has completed.
C14_Witness ==
    /\ pc = "sent" /\ Op.op \in ContinueNames
    /\ outstanding = 1
    /\ ~IsNone(Get(cursor).cursor_id)

\* The cache-context block of the operation in progress.
Info == Get(Op.query_params).cache_info

\* The block carries an expiry policy and the protocol context does not
\* support expiry policies.
Unsupported ==
    /\ ~IsNone(call) /\ Op.op = "cache_clear"
    /\ ~IsNone(Info) /\ ~IsNone(Get(Info).expiry_policy)
    /\ ~Get(Info).protocol_context.is_expiry_policy_supported

\* C15: an operation whose cache-context block carries an expiry policy on a
\* protocol context without support for it ends in NotSupportedByClusterError
\* before anything is sent: no frame is handed to conn.request, no response is
\* received, and the shared affinity version is the one held before the call.
C15_FailsBeforeSending ==
    Unsupported =>
        /\ pc = "done"
        /\ Get(result).raised = "NotSupportedByClusterError"
        /\ IsNone(wire) /\ IsNone(response) /\ outstanding = 0
        /\ affinity_version = Get(call).held

C15_Witness ==
    /\ Unsupported /\ pc = "done"
    /\ Op.conn = "AioConnection"
    /\ Get(result) = Fault("NotSupportedByClusterError")

\* The bytes of the frame after the header of a Query.
Block == SubSeq(Frame, SizeOf(QueryFields) + 1, Len(Frame))

\* C17: the cache-context block is the 4-byte cache id, then one flags byte
\* whose bit 0x04 is set exactly when an expiry policy is present, then the
\* payload of the policy exactly when the bit is set; with no cache info it
\* is cache id 0 and flags 0 with no payload.
C17_CacheInfoBlock ==
    (~IsNone(call) /\ Op.op = "cache_clear" /\ ~IsNone(wire)) =>
        /\ Len(Block) >= 5
        /\ ParseInt32(SubSeq(Block, 1, 4)) = (IF IsNone(Info) THEN 0 ELSE Get(Info).cache_id)
        /\ (BitAnd(Block[5], 4) # 0) <=>
                (~IsNone(Info) /\ ~IsNone(Get(Info).expiry_policy))
        /\ (Len(Block) > 5) <=> (BitAnd(Block[5], 4) # 0)
        /\ IsNone(Info) => Block = <<0, 0, 0, 0, 0>>

\* A block with a negative cache id and the payload of an expiry policy.
C17_Witness ==
    /\ pc = "sent" /\ Op.op = "cache_clear"
    /\ ~IsNone(Info) /\ Get(Info).cache_id = -2
    /\ SubSeq(Block, 1, 5) = <<254, 255, 255, 255, 4>>
    /\ Len(Block) = 29

C18_HandleOnly ==
    (~IsNone(call) /\ Op.op \in ContinueNames \cup {"resource_close"}) =>
        /\ ~IsNone(wire) =>
              /\ Len(Block) = 8
              /\ FromBytesU(Block) = Get(Op.query_params).cursor
        /\ (Op.op = "resource_close" /\ pc = "done" /\ Get(result).raised = "") =>
              /\ IsNone(Get(result).value)
              /\ Get(result).status = Get(response).status_code
              /\ (Get(result).status # 0) <=> ~IsNone(Get(result).message)

\* Close of the handle 300 has returned with status 0.
C18_Witness ==
    /\ pc = "done" /\ Op.op = "resource_close"
    /\ Get(Op.query_params).cursor = 300
    /\ Block = <<44, 1, 0, 0, 0, 0, 0, 0>>
    /\ Get(result).raised = "" /\ Get(result).status = 0
    /\ Get(response).body = "bad_value"

\* C19: the affinity update is transactional with response decoding: when
\* perform or perform_async ends in an exception raised while the response is
\* parsed or its value decoded, the shared affinity version is the one held
\* before the call.
C19_AffinityTransactional ==
    (pc = "done" /\ ~IsNone(response)
        /\ Get(result).raised \in {"ParseError", "ValueError"}) =>
            affinity_version = Get(call).held

\* The operation in progress went through query_perform and perform returned.
Performed ==
    /\ pc = "done" /\ ~IsNone(response) /\ Op.via = "query_perform"
    /\ Get(performed).raised = ""

\* C20, as claimed: query_perform applies a supplied post-processing function
\* for status 0 only; with a non-zero status what it returns is the result
\* of perform as it is.
C20_AppliedForStatusZeroOnly ==
    (Performed /\ Get(performed).status # 0) => result = performed

\* C20, amended: query_perform applies a supplied post-processing function to
\* the result of perform whatever the status, and returns the result of
\* perform as it is when none was supplied; the functions of the paged
\* queries return a result with a non-zero status as it is.
C20_AppliedWhateverStatus ==
    Performed =>
        /\ Op.post_process_fun # "" =>
              Get(result) = PostProcessFun(Op.post_process_fun, Get(performed))
        /\ Op.post_process_fun = "" => result = performed
        /\ (Op.post_process_fun \in {"query_result", "sql_fields_cursor"}
                /\ Get(performed).status # 0) => result = performed

\* A caller's own function has been applied to a result with status 1.
C20_Witness ==
    /\ Performed /\ Op.post_process_fun = "wrap"
    /\ Get(performed).status = 1
    /\ Get(result).value = Some(None)
    /\ Get(result).status = 1

\* The operation in progress is a call of perform or perform_async, directly
\* or through query_perform.
PerformCall == pc \in {"sent", "done"} /\ Op.via \in {"perform", "query_perform"}

\* C21, as claimed: each call of perform or perform_async makes exactly one
\* call of conn.request.
C21_ExactlyOneExchange == (PerformCall /\ pc = "done") => exchanges = 1

\* C21, amended: each call of perform or perform_async makes at most one call
\* of conn.request, none when serialisation raises and one otherwise, and
\* never a second one; an exception of serialisation, of the exchange, of
\* parsing or of decoding is what the caller gets, as raised, with no response
\* processed after it and no value.
C21_NeverRetries ==
    PerformCall =>
        /\ exchanges = (IF IsNone(wire) THEN 0 ELSE 1)
        /\ pc = "sent" => outstanding = 1
        /\ (pc = "done" /\ IsNone(wire)) =>
              /\ Get(result).raised # ""
              /\ Get(result) = Fault(Send(Op, NoTypes, Get(call).rnd).raised)
              /\ IsNone(response) /\ IsNone(performed)
        /\ (pc = "done" /\ ~IsNone(wire) /\ IsNone(response)) =>
              /\ Get(result) = Fault("SocketError")
              /\ affinity_version = Get(call).held
        /\ (pc = "done" /\ ~IsNone(response) /\ Get(performed).raised # "") =>
              /\ result = performed
              /\ Get(result).raised =
                    (IF ParseRaises(Get(response)) THEN "ParseError" ELSE "ValueError")
              /\ IsNone(Get(result).value)

\* The exchange of a query over the cooperative path has failed, after one
\* call of conn.request.
C21_Witness ==
    /\ PerformCall /\ pc = "done"
    /\ Op.conn = "AioConnection" /\ Op.via = "query_perform"
    /\ ~IsNone(wire) /\ IsNone(response)
    /\ Get(result) = Fault("SocketError")
    /\ exchanges = 1

\* C22: processing a response leaves the shared affinity version as it was
\* held when the response's topology-changed flag is not set, and when the
\* flag is set with a version that is, in the lexicographic order of (major,
\* minor), less than or equal to the held one; the held version is replaced
\* only by a strictly greater version, and then by exactly that version.
C22_ReplacedOnlyByGreater ==
    (pc = "done" /\ ~IsNone(response)) =>
        /\ ~TopologyChanged(Get(response)) => affinity_version = Get(call).held
        /\ (/\ TopologyChanged(Get(response))
            /\ Rank(Get(response).affinity) <= Rank(Get(call).held)) =>
                affinity_version = Get(call).held
        /\ affinity_version # Get(call).held =>
              /\ TopologyChanged(Get(response))
              /\ Rank(Get(response).affinity) > Rank(Get(call).held)
              /\ affinity_version = Get(response).affinity

\* A topology-changed response with a smaller major and a greater minor
\* version than the held one has left the held version in place.
C22_Witness ==
    /\ pc = "done" /\ ~IsNone(response)
    /\ TopologyChanged(Get(response))
    /\ Get(response).affinity[1] < Get(call).held[1]
    /\ Get(response).affinity[2] > Get(call).held[2]
    /\ affinity_version = Get(call).held

\* C23: the affinity compare-and-update is applied to every parsed response
\* before the status is inspected: whatever the status, the held version
\* after the call is the response's version when the topology-changed flag is
\* set and that version is strictly greater than the one held before, and a
\* response with a non-zero status that raises the held version still gives
\* a result with that status, its error message and no value.
C23_UpdateBeforeStatus ==
    (pc = "done" /\ ~IsNone(response) /\ ~ParseRaises(Get(response))) =>
        /\ affinity_version =
              (IF /\ TopologyChanged(Get(response))
                  /\ Rank(Get(response).affinity) > Rank(Get(call).held)
               THEN Get(response).affinity ELSE Get(call).held)
        /\ Get(response).status_code # 0 =>
              /\ Get(performed).raised = ""
              /\ Get(performed).status = Get(response).status_code
              /\ IsNone(Get(performed).value)
              /\ ~IsNone(Get(performed).message)

\* A scan answered with status 1 and a newer version: the version is adopted
\* and the result carries the error.
C23_Witness ==
    /\ pc = "done" /\ ~IsNone(response)
    /\ Op.op = "scan" /\ Op.conn = "Connection"
    /\ Get(response).status_code = 1
    /\ TopologyChanged(Get(response))
    /\ Get(call).held = <<0, 1>>
    /\ Get(response).affinity = <<1, 0>>
    /\ affinity_version = <<1, 0>>
    /\ Get(result).status = 1 /\ IsNone(Get(result).value)

\* C24: in the cooperative model, with the tasks interleaved at their awaits
\* only, concurrently running perform_async calls that share the client never
\* regress the affinity version: no step lowers it, and it is at all times the
\* greatest version held at the start or carried by a topology-changed
\* response parsed so far, since the read, the comparison and the write of
\* __post_process_response lie between two awaits.
C24_TasksNeverRegress ==
    /\ [][Rank(affinity_version') >= Rank(affinity_version)]_vars
    /\ [](affinity_version = max_seen)

\* Two tasks are suspended in to_python_async, each after a topology-changed
\* response; the held version is the greater of the two versions.
C24_Witness ==
    \E t, u \in Threads :
        /\ threads[t].pc = "to_python_async" /\ threads[u].pc = "to_python_async"
        /\ TopologyChanged(Get(threads[t].response))
        /\ TopologyChanged(Get(threads[u].response))
        /\ Get(threads[t].response).affinity = <<1, 0>>
        /\ Get(threads[u].response).affinity = <<0, 1>>
        /\ affinity_version = <<1, 0>>

\* The page as perform decoded it, a mapping of the declared fields, and the
\* number of columns the caller declared.
DecodedPage == Dict(Get(Get(performed).value))
FieldCount == Len(Op.response_struct.following[1][2].following)

\* C25: for a status-0 result of sql_fields_cursor_get_page, post-processing
\* turns the decoded page into a mapping of exactly 'data' and 'more': the
\* rows keep the decoded row order, each row is the list of the row's values
\* in column order field_0 .. field_{n-1} with exactly field_count entries,
\* and 'more' is the decoded continuation flag, the one the response carries.
C25_RowsInColumnOrder ==
    (/\ pc = "done" /\ Op.op = "sql_fields_cursor_get_page"
     /\ Get(result).raised = "" /\ Get(result).status = 0) =>
        /\ DOMAIN Get(Get(result).value) = {"data", "more"}
        /\ Len(Get(Get(result).value).data) = Len(DecodedPage["data"])
        /\ \A r \in 1..Len(DecodedPage["data"]) :
              /\ Len(Get(Get(result).value).data[r]) = FieldCount
              /\ \A i \in 1..FieldCount :
                    Get(Get(result).value).data[r][i]
                        = Dict(DecodedPage["data"][r])[FieldLabel(i - 1)]
        /\ Get(Get(result).value).more = DecodedPage["more"]
        /\ Get(Get(result).value).more = Get(response).more

\* A page of two rows of two columns, with more pages to come.
C25_Witness ==
    /\ pc = "done" /\ Op.op = "sql_fields_cursor_get_page"
    /\ Op.conn = "AioConnection"
    /\ Get(result).raised = "" /\ Get(result).status = 0
    /\ FieldCount = 2
    /\ Get(Get(result).value) = [data |-> << <<11, 12>>, <<21, 22>> >>, more |-> 1]

\* The parameters of the request put_binary_type has built.
Data == Get(Op.query_params)

\* C26: in the request put_binary_type builds for a non-enum type, the
\* schema entry's schema_fields has the length and the order of
\* binary_fields: its i-th schema_field_id is the i-th binary field's
\* field_id, and the schema id of the entry is the fold of these ids in this
\* order, so the i-th id is the i-th one folded in.
C26_SchemaFieldsFollowBinaryFields ==
    (pc = "sent" /\ Op.op = "put_binary_type" /\ ~Op.args.is_enum) =>
        /\ Len(Data.schema) = 1
        /\ Len(Data.schema[1].schema_fields) = Len(Data.binary_fields)
        /\ Len(Data.binary_fields) = Len(Op.args.schema)
        /\ \A i \in 1..Len(Data.binary_fields) :
              /\ Data.schema[1].schema_fields[i].schema_field_id
                    = Data.binary_fields[i].field_id
              /\ Data.binary_fields[i].field_name = Some(Utf8(Op.args.schema[i]))
        /\ Data.schema[1].schema_id =
              Some(IF Data.binary_fields = <<>> THEN 0
                   ELSE ParseInt32(FnvFold(FnvOffsetBasis32,
                            [i \in 1..Len(Data.binary_fields) |->
                                Data.binary_fields[i].field_id])))

\* The fields b and a, in this order, in both lists of the request.
C26_Witness ==
    /\ pc = "sent" /\ Op.op = "put_binary_type" /\ ~Op.args.is_enum
    /\ Op.args.schema = <<"b", "a">>
    /\ Len(Data.schema[1].schema_fields) = 2
    /\ Data.schema[1].schema_fields[1].schema_field_id = 98
    /\ Data.schema[1].schema_fields[2].schema_field_id = 97
    /\ Data.binary_fields[1].field_id = 98
    /\ Data.binary_fields[2].field_id = 97

\* The names of a structure's fields, in order.
Names(c_type) == [i \in 1..Len(c_type) |-> c_type[i][1]]

\* The header type a class is to get: its size and its fields.
HeaderOf(cls, c_type) ==
    IF cls = "ConfigQuery"
    THEN /\ SizeOf(c_type) = 18
         /\ Names(c_type) = <<"length", "op_code", "query_id", "config_length">>
    ELSE /\ SizeOf(c_type) = 14
         /\ Names(c_type) = <<"length", "op_code", "query_id">>

\* C27: the header types cached on Query and on ConfigQuery are independent.
\* After any sequence of build_c_type calls and operations on the two
\* classes, in any order, a call on Query returns the 14-byte header of
\* length, op_code and query_id, and a call on ConfigQuery the 18-byte header
\* with config_length; what a call returns is what its class then caches, a
\* cached type is never replaced, so repeated calls return the same type, and
\* a call on one class leaves the type cached on the other as it was.
C27_HeaderTypesIndependent ==
    /\ [](\A cls \in {"Query", "ConfigQuery"} :
            ~IsNone(query_c_type[cls]) => HeaderOf(cls, Get(query_c_type[cls])))
    /\ [](pc = "typed" =>
            /\ HeaderOf(Op.query.cls, Op.args)
            /\ query_c_type[Op.query.cls] = Some(Op.args))
    /\ [][\A cls \in {"Query", "ConfigQuery"} :
            /\ ~IsNone(query_c_type[cls]) => query_c_type'[cls] = query_c_type[cls]
            /\ (pc' = "typed" /\ Get(call').op.query.cls # cls) =>
                  query_c_type'[cls] = query_c_type[cls]]_vars

\* ConfigQuery.build_c_type() has returned the 18-byte header with the type
\* of Query already cached.
C27_Witness ==
    /\ pc = "typed"
    /\ Op.query.cls = "ConfigQuery"
    /\ SizeOf(Op.args) = 18
    /\ query_c_type["Query"] = Some(QueryFields)
    /\ query_c_type["ConfigQuery"] = Some(ConfigQueryFields)

=============================================================================
